---- MODULE Spec2Model ----
(***************************************************************************)
(* KRdp video transport: the packet/metadata pairer of PortalSession and   *)
(* of PlasmaScreencastV1Session, the frame queue, submitter thread and GFX *)
(* frame submission of VideoStream, and the encoder fallback and streaming *)
(* requests of AbstractSession.                                            *)
(*                                                                         *)
(* Twelve specifications share the module:                                 *)
(*   SpecPairer     the pairer (onPacketReceived, the frameMetadata        *)
(*                  callback, processPendingPackets, emitFrame) under a    *)
(*                  discrete clock, with metadata of every kind and a      *)
(*                  metadata backlog; the pairer of the Plasma backend     *)
(*                  receives the same signals;                             *)
(*   SpecBurst      the same handlers under a burst of non-key packets;    *)
(*   SpecStream     an initialized VideoStream: queueFrame, setEnabled,    *)
(*                  reset, onCapsAdvertise, the frame submission thread    *)
(*                  and sendFrame;                                         *)
(*   SpecSurfaces   a streaming VideoStream late in a long connection,     *)
(*                  after many resets;                                     *)
(*   SpecLifecycle  VideoStream from construction through initialize to    *)
(*                  close, with few frames;                                *)
(*   SpecCancel     SpecLifecycle under a fair scheduler;                  *)
(*   SpecAck        SpecStream with the client's frame acknowledgements    *)
(*                  and fewer frames;                                      *)
(*   SpecCaps       the capability exchange with more capability lists;    *)
(*   SpecRects      toDamageRects applied to one frame, a pass of its      *)
(*                  merge loop per step;                                   *)
(*   SpecRate       updateRequestedFrameRate under round trip times,       *)
(*                  acknowledgements and a clock;                          *)
(*   SpecFallback   handleStreamError and the stream signal handlers of    *)
(*                  a started AbstractSession;                             *)
(*   SpecRequests   requestStreamingEnable, requestStreamingDisable and    *)
(*                  setStarted of AbstractSession.                         *)
(* Each leaves the variables of the other components unchanged.            *)
(***************************************************************************)
EXTENDS Integers, Sequences, FiniteSets, TLC

VARIABLES
    \* ---- AbstractSession / PortalSession::Private ----
    size,                     \* AbstractSession::Private::size (QSize)
    pendingFrameMetadata,     \* QQueue<EncodedPacketMetadata>
    pendingPackets,           \* QQueue<PendingEncodedPacket>
    metadataSignalAvailable,
    metadataSeen,
    now,                      \* std::chrono::steady_clock, in ms
    plasma,                   \* PlasmaScreencastV1Session::Private: both queues,
                              \* metadataSeen, and the frames of its latest step
    \* ---- history of the pairer (not program state) ----
    frames,                   \* frameReceived signals emitted by the latest step
    emittedCount,             \* number of frameReceived signals so far
    packetCount,              \* packets delivered so far (P1..Pn)
    metaCount,                \* metadata records delivered so far (M1..Mk)
    lastPacket,               \* index of the last packet handed to emitFrame
    lastPairedMeta,           \* index of the last record handed to emitFrame
    droppedMeta,              \* records dropped by the MaxPendingFrameMetadata cap
    metaLead,                 \* largest j - i over the pairs (Pi, Mj) so far, at least 0
    \* ---- VideoStream::Private ----
    gfxContext,               \* "null", "unopened", "open" or "closed"
    frameQueue,               \* QList<VideoFrame>, guarded by frameQueueMutex
    enabled,
    capsConfirmed,
    pendingReset,
    nextSurfaceId,            \* uint16_t
    surface,                  \* Surface {id, size}
    frameId,                  \* uint32_t
    encodedFrames,
    pendingFrames,            \* QSet<uint32_t>
    stopRequested,            \* the stop token of frameSubmissionThread
    frameDelay,               \* encodedFrames - totalFramesDecoded of the last known ack
    requestedFrameRate,       \* int
    frameRateEstimates,       \* QList<FrameRateEstimate>
    lastFrameRateEstimation,  \* system_clock::time_point, in ms
    wallClock,                \* clk::system_clock::now(), in ms
    \* ---- NetworkDetection ----
    measuring,                \* startBandwidthMeasure without its stopBandwidthMeasure
    \* ---- threads ----
    producerPc,               \* queueFrame: "idle", or "append" before taking the mutex
    producerFrame,
    submitterPc,              \* "none", "wait", "send", "stopped", "joined"
    nextFrame,
    closePc,                  \* close(): "idle", "stop", "join"
    \* ---- history of the stream (not program state) ----
    produced,                 \* queueFrame calls so far
    sentSeq,                  \* producer number of the last frame put on the wire
    outstanding,              \* frame ids put on the wire and not acknowledged since
    startedId,                \* frameId of the last START_FRAME, -1 before the first
    resetOwed,                \* no START_FRAME yet since creation or the last reset()
    lastStep,                 \* what the latest step of the stream did
    \* ---- toDamageRects applied to one frame ----
    rectInput,                \* the frame, <<>> when none
    rectOutput,               \* the RECTANGLE_16 list computed for it
    \* ---- AbstractSession::Private, the encoder fallback ----
    forcedEncoder,            \* environment variable KPIPEWIRE_FORCE_ENCODER
    encodedStreamState,       \* PipeWireBaseEncodedStream::state()
    sessionEnabled,           \* AbstractSession::Private::enabled
    softwareFallbackAttempted,
    softwareFallbackRetryPending,
    softwareFallbackRetryInProgress,
    enableRequests,           \* QSet<QObject *>
    started,                  \* AbstractSession::Private::started
    \* ---- history of the session (not program state) ----
    startCalls,               \* calls of start() so far
    errorsFound,              \* errorFound signals handled so far
    fallbacksForced,          \* times the software encoder was forced
    retriesStarted,           \* encodedStream->start() calls made by the retry
    sessionStep               \* what the latest step of the fallback did

pairerVars == <<size, pendingFrameMetadata, pendingPackets, metadataSignalAvailable,
                metadataSeen, now, plasma, frames, emittedCount, packetCount, metaCount,
                lastPacket, lastPairedMeta, droppedMeta, metaLead>>

streamVars == <<gfxContext, frameQueue, enabled, capsConfirmed, pendingReset,
                nextSurfaceId, surface, frameId, encodedFrames, pendingFrames,
                stopRequested, measuring, producerPc, producerFrame,
                submitterPc, nextFrame, closePc, produced, sentSeq, lastStep,
                frameDelay, outstanding, startedId, resetOwed>>

rateVars == <<requestedFrameRate, frameRateEstimates, lastFrameRateEstimation, wallClock>>

rectVars == <<rectInput, rectOutput>>

requestVars == <<enableRequests, started, startCalls>>

sessionVars == <<forcedEncoder, encodedStreamState, sessionEnabled,
                 softwareFallbackAttempted, softwareFallbackRetryPending,
                 softwareFallbackRetryInProgress, errorsFound, fallbacksForced,
                 retriesStarted, sessionStep, requestVars>>

\* What the steps of the pairer, and of the frame path of the stream, leave alone.
besidePairer == <<streamVars, rateVars, rectVars, sessionVars>>
besideStream == <<pairerVars, rateVars, rectVars, sessionVars>>

vars == <<pairerVars, streamVars, rateVars, rectVars, sessionVars>>

----------------------------------------------------------------------------
\* Bounds of the model.
MaxPackets == 5         \* packets delivered in one run of SpecPairer
MaxBurst == 10          \* packets delivered in one run of SpecBurst
MaxNow == 15            \* the clock stops advancing here
MaxMetas == 2           \* metadata records of mixed kinds delivered in one run
MaxDroppedMeta == 1     \* records the MaxPendingFrameMetadata cap may drop
MaxKeyPending == 1      \* key-frame packets waiting in the queue at a time

\* Program constants.
MaxQueuedFrames == 4
MaxCoalescedDamageRects == 64
MaxDamageRectCount == 128
MaxRdpCoordinate == 65535
MaxPendingFrameMetadata == 128
MaxPendingPacketsWithoutMetadata == 8
MetadataPairWaitBudget == 12

----------------------------------------------------------------------------
\* QSize, QRect, QRegion.  A region is the set of its rectangles; the
\* rectangles of the regions used here are pairwise disjoint.

QSize(w, h) == [w |-> w, h |-> h]
QRect(x, y, w, h) == [x |-> x, y |-> y, w |-> w, h |-> h]

sizeIsEmpty(s) == s.w <= 0 \/ s.h <= 0
rectIsEmpty(r) == r.w <= 0 \/ r.h <= 0

Max2(a, b) == IF a >= b THEN a ELSE b
Min2(a, b) == IF a <= b THEN a ELSE b

rectIntersected(a, b) ==
    IF rectIsEmpty(a) \/ rectIsEmpty(b) THEN QRect(0, 0, 0, 0)
    ELSE LET l == Max2(a.x, b.x)
             t == Max2(a.y, b.y)
             r == Min2(a.x + a.w, b.x + b.w)
             bt == Min2(a.y + a.h, b.y + b.h)
         IN IF r <= l \/ bt <= t THEN QRect(0, 0, 0, 0)
            ELSE QRect(l, t, r - l, bt - t)

regionIntersected(region, rect) ==
    {rectIntersected(r, rect) : r \in region} \ {QRect(0, 0, 0, 0)}

regionIsEmpty(region) == region = {}

\* QRegion(const QRect &): the region of an empty rectangle is empty.
QRegion(r) == IF rectIsEmpty(r) THEN {} ELSE {r}

frameRect(s) == QRect(0, 0, s.w, s.h)

fullFrameDamage(s) ==
    IF sizeIsEmpty(s) THEN {} ELSE QRegion(frameRect(s))

clippedDamage(damage, s) ==
    IF sizeIsEmpty(s) THEN {}
    ELSE LET clipped == regionIntersected(damage, frameRect(s))
         IN IF regionIsEmpty(clipped) THEN fullFrameDamage(s) ELSE clipped

----------------------------------------------------------------------------
\* VideoStream.cpp: conversion of a frame's damage to RECTANGLE_16 entries.

Clamp(v, lo, hi) == Min2(Max2(v, lo), hi)

toRdpRect(rect) ==
    LET left == Clamp(rect.x, 0, MaxRdpCoordinate)
        top == Clamp(rect.y, 0, MaxRdpCoordinate)
        right == Clamp(rect.x + rect.w, 0, MaxRdpCoordinate)
        bottom == Clamp(rect.y + rect.h, 0, MaxRdpCoordinate)
    IN [left |-> left, top |-> top,
        right |-> IF right <= left THEN Min2(left + 1, MaxRdpCoordinate) ELSE right,
        bottom |-> IF bottom <= top THEN Min2(top + 1, MaxRdpCoordinate) ELSE bottom]

\* QRegion::rects(): the rectangles sorted by y, then by x.
rectBefore(a, b) == a.y < b.y \/ (a.y = b.y /\ a.x <= b.x)

regionRects(region) ==
    LET rank == [r \in region |-> Cardinality({o \in region : rectBefore(o, r)})]
    IN [k \in 1..Cardinality(region) |-> CHOOSE r \in region : rank[r] = k]

\* QRect::united of two non-empty rectangles: their bounding rectangle.
rectUnited(a, b) ==
    LET l == Min2(a.x, b.x)
        t == Min2(a.y, b.y)
        r == Max2(a.x + a.w, b.x + b.w)
        bt == Max2(a.y + a.h, b.y + b.h)
    IN QRect(l, t, r - l, bt - t)

\* The merge condition of toDamageRects for two rectangles.
qualifies(a, b) ==
    LET joined == rectUnited(a, b)
    IN joined.w * joined.h <= ((a.w * a.h + b.w * b.h) * 3) \div 2

\* The pairs <<i, j>>, i < j, that the merge loop would join.
mergeCandidates(damageRects) ==
    {p \in (DOMAIN damageRects) \X (DOMAIN damageRects) :
        p[1] < p[2] /\ qualifies(damageRects[p[1]], damageRects[p[2]])}

\* Whether the two for loops find a pair to join.
hasMergePair(damageRects) ==
    \E i \in DOMAIN damageRects : \E j \in (i + 1)..Len(damageRects) :
        qualifies(damageRects[i], damageRects[j])

\* The pair the two for loops find first: the least i with a partner, and
\* its least partner j.
firstMergePair(damageRects) ==
    LET n == Len(damageRects)
        partner(i) == \E j \in (i + 1)..n : qualifies(damageRects[i], damageRects[j])
        i == CHOOSE k \in 1..n : partner(k) /\ \A o \in 1..(k - 1) : ~partner(o)
        j == CHOOSE k \in (i + 1)..n :
                 /\ qualifies(damageRects[i], damageRects[k])
                 /\ \A o \in (i + 1)..(k - 1) :
                        ~qualifies(damageRects[i], damageRects[o])
    IN <<i, j>>

removeAt(q, j) == SubSeq(q, 1, j - 1) \o SubSeq(q, j + 1, Len(q))

\* One pass of the while loop that found a pair: damageRects[i] = joined,
\* damageRects.removeAt(j).
mergeOnce(damageRects) ==
    LET p == firstMergePair(damageRects)
        joined == rectUnited(damageRects[p[1]], damageRects[p[2]])
    IN removeAt([damageRects EXCEPT ![p[1]] = joined], p[2])

\* The while condition with fewer passes: the loop runs down to
\* MaxDamageRectCount only.
mergeLoopRuns_toMaxCount(merged, n) == merged /\ n > MaxDamageRectCount

\* The condition of the while loop of toDamageRects.
mergeLoopRuns(merged, n) == merged /\ n > MaxCoalescedDamageRects

\* The while loop of toDamageRects: join the first mergeable pair, in the
\* order of the two for loops, until nothing merges or few enough are left.
RECURSIVE coalesce(_)
coalesce(damageRects) ==
    IF ~mergeLoopRuns(TRUE, Len(damageRects)) \/ ~hasMergePair(damageRects)
    THEN damageRects
    ELSE coalesce(mergeOnce(damageRects))

\* The final loop of toDamageRects.
boundedRects(damageRects, frameBounds) ==
    LET bounded == [i \in DOMAIN damageRects |->
                        rectIntersected(damageRects[i], frameBounds)]
        kept == SelectSeq(bounded, LAMBDA r : ~rectIsEmpty(r))
    IN [k \in DOMAIN kept |-> toRdpRect(kept[k])]

\* toDamageRects after the merge loop.
damageRectsAfterMerge(merged, frameBounds) ==
    LET rects == boundedRects(merged, frameBounds)
    IN IF Len(merged) > MaxDamageRectCount THEN <<toRdpRect(frameBounds)>>
       ELSE IF rects = <<>> THEN <<toRdpRect(frameBounds)>>
       ELSE rects

\* toDamageRects: whether it returns before the merge loop.
returnsEarly(frame) ==
    \/ sizeIsEmpty(frame.size)
    \/ frame.isKeyFrame
    \/ regionIsEmpty(frame.damage)
    \/ LET clipped == regionIntersected(frame.damage, frameRect(frame.size))
       IN clipped = {} \/ Cardinality(clipped) > MaxDamageRectCount

toDamageRects(frame) ==
    IF sizeIsEmpty(frame.size) THEN <<>>
    ELSE LET frameBounds == frameRect(frame.size)
             fullRect == toRdpRect(frameBounds)
         IN IF frame.isKeyFrame \/ regionIsEmpty(frame.damage) THEN <<fullRect>>
            ELSE LET damageRects == regionRects(regionIntersected(frame.damage, frameBounds))
                 IN IF damageRects = <<>> \/ Len(damageRects) > MaxDamageRectCount
                    THEN <<fullRect>>
                    ELSE damageRectsAfterMerge(coalesce(damageRects), frameBounds)

\* sendFrame: the AVC420 bitmap stream metadata of a frame, one region
\* rectangle and one quantisation/quality entry per damage rectangle.
avc420Meta(frame) ==
    LET damageRects == toDamageRects(frame)
    IN [regionRects |-> damageRects,
        quantQualityVals |-> [i \in DOMAIN damageRects |->
                                 [qp |-> 22, p |-> 0, qualityVal |-> 100]]]

----------------------------------------------------------------------------
\* Inputs of the pairer.

InvalidSize == QSize(-1, -1)          \* a default-constructed QSize
SessionSizes == {InvalidSize, QSize(1920, 1080)}

SmallDamage == {QRect(0, 0, 32, 32)}
\* Crosses the border of a 1920x1080 frame, outside a 1280x720 one.
EdgeDamage == {QRect(1900, 1060, 40, 40)}

\* PipeWireEncodedFrameMeta as delivered by the frameMetadata signal: size
\* present or absent, damage present or absent, inside, across or outside
\* the frame, size equal to or different from the session's.
FrameMeta(s, hasDamage, damage) == [size |-> s, hasDamage |-> hasDamage, damage |-> damage]

PlainMeta == FrameMeta(QSize(0, 0), FALSE, {})

MetaInputs ==
    {PlainMeta,
     FrameMeta(QSize(1920, 1080), TRUE, SmallDamage),
     FrameMeta(QSize(1280, 720), TRUE, EdgeDamage),
     FrameMeta(QSize(1280, 720), FALSE, {}),
     FrameMeta(QSize(0, 0), TRUE, EdgeDamage)}

----------------------------------------------------------------------------
\* emitFrame without the key-frame test of its last condition.
emitFrame_keyKeepsDamage(packet, metadata, sessionSize) ==
    LET metadataApplied == metadata # <<>>
        size1 == IF metadataApplied /\ metadata[1].hasSize /\ ~sizeIsEmpty(metadata[1].size)
                 THEN metadata[1].size ELSE sessionSize
        damage0 == fullFrameDamage(sessionSize)
        damage1 == IF metadataApplied /\ metadata[1].hasDamage
                   THEN clippedDamage(metadata[1].damage, size1) ELSE damage0
        damage2 == IF ~metadataApplied \/ regionIsEmpty(damage1)
                   THEN fullFrameDamage(size1) ELSE damage1
    IN [data |-> packet.data, isKeyFrame |-> packet.isKeyFrame,
        size |-> size1, damage |-> damage2]

\* emitFrame: the VideoFrame built for a packet; metadata is <<>> for a null
\* pointer and <<m>> otherwise.
emitFrame(packet, metadata, sessionSize) ==
    LET metadataApplied == metadata # <<>>
        size1 == IF metadataApplied /\ metadata[1].hasSize /\ ~sizeIsEmpty(metadata[1].size)
                 THEN metadata[1].size ELSE sessionSize
        damage0 == fullFrameDamage(sessionSize)
        damage1 == IF metadataApplied /\ metadata[1].hasDamage
                   THEN clippedDamage(metadata[1].damage, size1) ELSE damage0
        damage2 == IF ~metadataApplied \/ packet.isKeyFrame \/ regionIsEmpty(damage1)
                   THEN fullFrameDamage(size1) ELSE damage1
    IN [data |-> packet.data, isKeyFrame |-> packet.isKeyFrame,
        size |-> size1, damage |-> damage2]

\* One frameReceived signal with the history the properties read: which
\* packet and which metadata record (0: none) it was built from, its place
\* in the emission order, the last packet and record used before it, the
\* records dropped before it, how long the packet had been queued and how
\* many packets were pending when it was released.
Emission(st, pendingPacket, metadata, sessionSize, t) ==
    [frame |-> emitFrame(pendingPacket.packet, metadata, sessionSize),
     packet |-> pendingPacket.index,
     meta |-> IF metadata = <<>> THEN 0 ELSE metadata[1].index,
     used |-> metadata,
     seq |-> st.emittedCount + 1,
     prevPacket |-> st.lastPacket,
     prevMeta |-> st.lastPairedMeta,
     dropped |-> st.droppedMeta,
     waited |-> t - pendingPacket.queuedAt,
     depth |-> Len(st.packets)]

\* Emit taking the newest pending packet instead of the oldest.
Emit_newestFirst(st, metadata, sessionSize, t) ==
    LET e == Emission(st, st.packets[Len(st.packets)], metadata, sessionSize, t)
    IN [st EXCEPT !.packets = SubSeq(st.packets, 1, Len(st.packets) - 1),
                  !.metadata = IF metadata = <<>> THEN st.metadata ELSE Tail(st.metadata),
                  !.frames = Append(st.frames, e),
                  !.emittedCount = st.emittedCount + 1,
                  !.lastPacket = e.packet,
                  !.lastPairedMeta = IF metadata = <<>> THEN st.lastPairedMeta ELSE e.meta,
                  !.metaLead = IF metadata = <<>> THEN st.metaLead
                               ELSE Max2(st.metaLead, e.meta - e.packet)]

\* Emit leaving the metadata record it used in the queue.
Emit_keepsMetadata(st, metadata, sessionSize, t) ==
    LET e == Emission(st, Head(st.packets), metadata, sessionSize, t)
    IN [st EXCEPT !.packets = Tail(st.packets),
                  !.frames = Append(st.frames, e),
                  !.emittedCount = st.emittedCount + 1,
                  !.lastPacket = e.packet,
                  !.lastPairedMeta = IF metadata = <<>> THEN st.lastPairedMeta ELSE e.meta,
                  !.metaLead = IF metadata = <<>> THEN st.metaLead
                               ELSE Max2(st.metaLead, e.meta - e.packet)]

\* One pass of the loop body of processPendingPackets that emits: dequeue the
\* head packet (and the head record when one is used) and call emitFrame.
Emit(st, metadata, sessionSize, t) ==
    LET e == Emission(st, Head(st.packets), metadata, sessionSize, t)
    IN [st EXCEPT !.packets = Tail(st.packets),
                  !.metadata = IF metadata = <<>> THEN st.metadata ELSE Tail(st.metadata),
                  !.frames = Append(st.frames, e),
                  !.emittedCount = st.emittedCount + 1,
                  !.lastPacket = e.packet,
                  !.lastPairedMeta = IF metadata = <<>> THEN st.lastPairedMeta ELSE e.meta,
                  !.metaLead = IF metadata = <<>> THEN st.metaLead
                               ELSE Max2(st.metaLead, e.meta - e.packet)]

\* processPendingPackets without the queue-depth release.
RECURSIVE processPendingPackets_noDepthLimit(_, _, _, _, _)
processPendingPackets_noDepthLimit(st, signalAvailable, seen, sessionSize, t) ==
    IF st.packets = <<>> THEN st
    ELSE IF st.metadata # <<>>
    THEN processPendingPackets_noDepthLimit(Emit(st, <<Head(st.metadata)>>, sessionSize, t),
                                            signalAvailable, seen, sessionSize, t)
    ELSE LET pendingPacket == Head(st.packets)
             shouldSendWithoutMetadata ==
                 ~signalAvailable \/ ~seen \/ pendingPacket.packet.isKeyFrame
             waitedTooLong == (t - pendingPacket.queuedAt) >= MetadataPairWaitBudget
         IN IF shouldSendWithoutMetadata \/ waitedTooLong
            THEN processPendingPackets_noDepthLimit(Emit(st, <<>>, sessionSize, t),
                                                    signalAvailable, seen, sessionSize, t)
            ELSE st

\* processPendingPackets: the drain loop.  st holds the two queues and the
\* history; signalAvailable, seen, sessionSize and t are what the loop reads.
RECURSIVE processPendingPackets(_, _, _, _, _)
processPendingPackets(st, signalAvailable, seen, sessionSize, t) ==
    IF st.packets = <<>> THEN st
    ELSE IF st.metadata # <<>>
    THEN processPendingPackets(Emit(st, <<Head(st.metadata)>>, sessionSize, t),
                               signalAvailable, seen, sessionSize, t)
    ELSE LET pendingPacket == Head(st.packets)
             shouldSendWithoutMetadata ==
                 ~signalAvailable \/ ~seen \/ pendingPacket.packet.isKeyFrame
             waitedTooLong == (t - pendingPacket.queuedAt) >= MetadataPairWaitBudget
             queueTooDeep == Len(st.packets) > MaxPendingPacketsWithoutMetadata
         IN IF shouldSendWithoutMetadata \/ waitedTooLong \/ queueTooDeep
            THEN processPendingPackets(Emit(st, <<>>, sessionSize, t),
                                       signalAvailable, seen, sessionSize, t)
            ELSE st

PairerState(packets, metadata) ==
    [packets |-> packets, metadata |-> metadata, frames |-> <<>>,
     emittedCount |-> emittedCount, lastPacket |-> lastPacket,
     lastPairedMeta |-> lastPairedMeta, droppedMeta |-> droppedMeta,
     metaLead |-> metaLead]

\* QQueue::enqueue followed by the while loop that drops the oldest records.
RECURSIVE dropOldest(_, _)
dropOldest(q, cap) == IF Len(q) > cap THEN dropOldest(Tail(q), cap) ELSE q

\* enqueue without the loop that drops the oldest records.
enqueueMetadata_unbounded(q, m) == Append(q, m)

enqueueMetadata(q, m) == dropOldest(Append(q, m), MaxPendingFrameMetadata)

----------------------------------------------------------------------------
\* The pairer of PlasmaScreencastV1Session, a session of the other backend
\* whose encoded stream delivers the same signals.  plasma holds its queues,
\* its metadataSeen and the frames it emitted in the latest step, each with
\* the packet and the record (0: none) it was built from.

\* emitFrame of PlasmaScreencastV1Session keeping the session's size.
plasmaEmitFrame_keepsSize(packet, metadata, sessionSize) ==
    LET metadataApplied == metadata # <<>>
        damage0 == fullFrameDamage(sessionSize)
        damage1 == IF metadataApplied /\ metadata[1].hasDamage
                   THEN clippedDamage(metadata[1].damage, sessionSize) ELSE damage0
        damage2 == IF ~metadataApplied \/ packet.isKeyFrame \/ regionIsEmpty(damage1)
                   THEN fullFrameDamage(sessionSize) ELSE damage1
    IN [data |-> packet.data, isKeyFrame |-> packet.isKeyFrame,
        size |-> sessionSize, damage |-> damage2]

\* The emitFrame lambda of PlasmaScreencastV1Session::processPendingPackets.
plasmaEmitFrame(packet, metadata, sessionSize) ==
    LET frameSize0 == sessionSize
        isKeyFrame == packet.isKeyFrame
        damage0 == fullFrameDamage(frameSize0)
        metadataApplied == metadata # <<>>
        frameSize == IF metadataApplied /\ metadata[1].hasSize /\ ~sizeIsEmpty(metadata[1].size)
                     THEN metadata[1].size ELSE frameSize0
        damage1 == IF metadataApplied /\ metadata[1].hasDamage
                   THEN clippedDamage(metadata[1].damage, frameSize) ELSE damage0
    IN [data |-> packet.data, isKeyFrame |-> isKeyFrame, size |-> frameSize,
        damage |-> IF ~metadataApplied \/ isKeyFrame \/ regionIsEmpty(damage1)
                   THEN fullFrameDamage(frameSize) ELSE damage1]

\* The while loop of PlasmaScreencastV1Session::processPendingPackets.
RECURSIVE plasmaProcessPendingPackets(_, _, _, _)
plasmaProcessPendingPackets(st, signalAvailable, sessionSize, t) ==
    IF st.pendingPackets = <<>> THEN st
    ELSE LET pendingPacket == Head(st.pendingPackets)
         IN IF st.pendingFrameMetadata # <<>>
            THEN LET metadata == Head(st.pendingFrameMetadata)
                 IN plasmaProcessPendingPackets(
                        [st EXCEPT !.pendingPackets = Tail(@),
                                   !.pendingFrameMetadata = Tail(@),
                                   !.frames = Append(@,
                                       [frame |-> plasmaEmitFrame(pendingPacket.packet,
                                                                  <<metadata>>, sessionSize),
                                        packet |-> pendingPacket.index,
                                        meta |-> metadata.index])],
                        signalAvailable, sessionSize, t)
            ELSE LET shouldSendWithoutMetadata ==
                         ~signalAvailable \/ ~st.metadataSeen \/ pendingPacket.packet.isKeyFrame
                     waitedTooLong == (t - pendingPacket.queuedAt) >= MetadataPairWaitBudget
                     queueTooDeep == Len(st.pendingPackets) > MaxPendingPacketsWithoutMetadata
                 IN IF shouldSendWithoutMetadata \/ waitedTooLong \/ queueTooDeep
                    THEN plasmaProcessPendingPackets(
                             [st EXCEPT !.pendingPackets = Tail(@),
                                        !.frames = Append(@,
                                            [frame |-> plasmaEmitFrame(pendingPacket.packet,
                                                                       <<>>, sessionSize),
                                             packet |-> pendingPacket.index,
                                             meta |-> 0])],
                             signalAvailable, sessionSize, t)
                    ELSE st

\* PlasmaScreencastV1Session::onPacketReceived: the session after the call.
plasmaOnPacketReceived(isKeyFrame) ==
    plasmaProcessPendingPackets(
        [plasma EXCEPT !.pendingPackets =
                           Append(@, [packet |-> [data |-> packetCount + 1,
                                                  isKeyFrame |-> isKeyFrame],
                                      queuedAt |-> now, index |-> packetCount + 1]),
                       !.frames = <<>>],
        metadataSignalAvailable, size, now)

\* The frameMetadata callback connected in PlasmaScreencastV1Session::start:
\* the session after the call.
plasmaFrameMetadata(meta) ==
    LET frameMetadata1 == [size |-> meta.size,
                           hasSize |-> ~sizeIsEmpty(meta.size),
                           damage |-> IF meta.hasDamage THEN meta.damage ELSE {},
                           hasDamage |-> meta.hasDamage,
                           index |-> metaCount + 1]
    IN plasmaProcessPendingPackets(
           [plasma EXCEPT !.pendingFrameMetadata =
                              dropOldest(Append(@, frameMetadata1), MaxPendingFrameMetadata),
                          !.metadataSeen = TRUE,
                          !.frames = <<>>],
           metadataSignalAvailable, size, now)

\* A step in which no handler of the Plasma session runs.
plasmaIdle == [plasma EXCEPT !.frames = <<>>]

----------------------------------------------------------------------------
\* Actions of the pairer.

KeyPending == Cardinality({i \in DOMAIN pendingPackets : pendingPackets[i].packet.isKeyFrame})

\* PortalSession::onPacketReceived
onPacketReceived(isKeyFrame) ==
    /\ LET p == [packet |-> [data |-> packetCount + 1, isKeyFrame |-> isKeyFrame],
                 queuedAt |-> now, index |-> packetCount + 1]
           st == processPendingPackets(
                     PairerState(Append(pendingPackets, p), pendingFrameMetadata),
                     metadataSignalAvailable, metadataSeen, size, now)
       IN /\ pendingPackets' = st.packets
          /\ pendingFrameMetadata' = st.metadata
          /\ frames' = st.frames
          /\ emittedCount' = st.emittedCount
          /\ lastPacket' = st.lastPacket
          /\ lastPairedMeta' = st.lastPairedMeta
          /\ metaLead' = st.metaLead
    /\ packetCount' = packetCount + 1
    /\ UNCHANGED <<size, metadataSignalAvailable, metadataSeen, now, metaCount, droppedMeta>>
    /\ UNCHANGED besidePairer

\* The frameMetadata callback connected in onSessionStarted.
frameMetadata(meta) ==
    LET frameMetadata1 == [size |-> meta.size,
                           hasSize |-> ~sizeIsEmpty(meta.size),
                           damage |-> IF meta.hasDamage THEN meta.damage ELSE {},
                           hasDamage |-> meta.hasDamage,
                           index |-> metaCount + 1]
        queued == enqueueMetadata(pendingFrameMetadata, frameMetadata1)
        lost == Len(pendingFrameMetadata) + 1 - Len(queued)
        st == processPendingPackets(
                  [PairerState(pendingPackets, queued) EXCEPT !.droppedMeta = droppedMeta + lost],
                  metadataSignalAvailable, TRUE, size, now)
    IN /\ metadataSignalAvailable
       /\ pendingFrameMetadata' = st.metadata
       /\ pendingPackets' = st.packets
       /\ metadataSeen' = TRUE
       /\ frames' = st.frames
       /\ emittedCount' = st.emittedCount
       /\ lastPacket' = st.lastPacket
       /\ lastPairedMeta' = st.lastPairedMeta
       /\ metaLead' = st.metaLead
       /\ droppedMeta' = droppedMeta + lost
       /\ metaCount' = metaCount + 1
       /\ UNCHANGED <<size, metadataSignalAvailable, now, packetCount>>
       /\ UNCHANGED besidePairer

\* Up to MaxMetas records of mixed kinds are delivered at any time.  Beyond
\* that, a session that has seen no packet yet may receive a run of PlainMeta
\* records, long enough to reach the MaxPendingFrameMetadata cap.
MetadataArrives ==
    \/ /\ metaCount < MaxMetas
       /\ \E meta \in MetaInputs :
              frameMetadata(meta) /\ plasma' = plasmaFrameMetadata(meta)
    \/ /\ metaCount >= MaxMetas
       /\ Len(pendingFrameMetadata) + droppedMeta = metaCount
       /\ \A i \in DOMAIN pendingFrameMetadata :
              /\ ~pendingFrameMetadata[i].hasSize
              /\ ~pendingFrameMetadata[i].hasDamage
       /\ packetCount = 0 /\ now = 0 /\ size = InvalidSize
       /\ Len(pendingFrameMetadata) < MaxPendingFrameMetadata \/ droppedMeta < MaxDroppedMeta
       /\ frameMetadata(PlainMeta)
       /\ plasma' = plasmaFrameMetadata(PlainMeta)

\* Up to MaxPackets packets are delivered at any time.  Once the cap has
\* dropped a record, non-key packets keep arriving until there are as many
\* packets as records.
PacketArrives ==
    \/ /\ packetCount < MaxPackets
       /\ \E isKeyFrame \in BOOLEAN :
              /\ isKeyFrame => KeyPending < MaxKeyPending
              /\ onPacketReceived(isKeyFrame)
              /\ plasma' = plasmaOnPacketReceived(isKeyFrame)
    \/ /\ packetCount >= MaxPackets
       /\ droppedMeta > 0
       /\ packetCount < metaCount
       /\ onPacketReceived(FALSE)
       /\ plasma' = plasmaOnPacketReceived(FALSE)

\* AbstractSession::setSize, connected to PipeWireEncodedStream::sizeChanged.
LongBacklog == Len(pendingFrameMetadata) > MaxMetas

setSize(s) ==
    /\ size # s
    /\ ~LongBacklog
    /\ size' = s
    /\ frames' = <<>>
    /\ plasma' = plasmaIdle
    /\ UNCHANGED <<pendingFrameMetadata, pendingPackets, metadataSignalAvailable,
                   metadataSeen, now, emittedCount, packetCount, metaCount,
                   lastPacket, lastPairedMeta, droppedMeta, metaLead>>
    /\ UNCHANGED besidePairer

SizeChanged == \E s \in SessionSizes : setSize(s)

\* The steady clock advances; no handler of the session runs on a timer.
TickSteps == {5}

Tick ==
    /\ ~LongBacklog
    /\ \E d \in TickSteps : now + d <= MaxNow /\ now' = now + d
    /\ frames' = <<>>
    /\ plasma' = plasmaIdle
    /\ UNCHANGED <<size, pendingFrameMetadata, pendingPackets, metadataSignalAvailable,
                   metadataSeen, emittedCount, packetCount, metaCount,
                   lastPacket, lastPairedMeta, droppedMeta, metaLead>>
    /\ UNCHANGED besidePairer

\* The values KPIPEWIRE_FORCE_ENCODER may have when the process starts: unset,
\* a hardware encoder, the software encoder.
ForcedEncoders == {"", "h264_vaapi", "libx264"}

\* The states of PipeWireBaseEncodedStream.
EncodedStreamStates == {"Idle", "Recording", "Rendering"}

\* The fallback fields of AbstractSession::Private right after construction,
\* the encoded stream created and not started.
InitSessionPrivate ==
    /\ forcedEncoder \in ForcedEncoders
    /\ encodedStreamState = "Idle"
    /\ sessionEnabled = FALSE
    /\ softwareFallbackAttempted = FALSE
    /\ softwareFallbackRetryPending = FALSE
    /\ softwareFallbackRetryInProgress = FALSE
    /\ errorsFound = 0
    /\ fallbacksForced = 0
    /\ retriesStarted = 0
    /\ sessionStep = [kind |-> "none"]
    /\ enableRequests = {}
    /\ started \in BOOLEAN
    /\ startCalls = 0

\* The session right after it started (onSessionStarted cleared both queues).
InitPairerVars ==
    /\ InitSessionPrivate
    /\ size = InvalidSize
    /\ pendingFrameMetadata = <<>>
    /\ pendingPackets = <<>>
    /\ metadataSignalAvailable \in BOOLEAN
    /\ metadataSeen = FALSE
    /\ now = 0
    /\ plasma = [pendingPackets |-> <<>>, pendingFrameMetadata |-> <<>>,
                 metadataSeen |-> FALSE, frames |-> <<>>]
    /\ frames = <<>>
    /\ emittedCount = 0
    /\ packetCount = 0
    /\ metaCount = 0
    /\ lastPacket = 0
    /\ lastPairedMeta = 0
    /\ droppedMeta = 0
    /\ metaLead = 0

\* The system clock when the stream is created, in ms since its epoch.
StartOfRun == 5000

\* VideoStream::Private right after construction, but for the argument and
\* result of toDamageRects.
InitStreamFields ==
    /\ frameQueue = <<>>
    /\ enabled = FALSE
    /\ capsConfirmed = FALSE
    /\ pendingReset = TRUE
    /\ nextSurfaceId = 1
    /\ surface = [id |-> 0, size |-> InvalidSize]
    /\ frameId = 0
    /\ encodedFrames = 0
    /\ pendingFrames = {}
    /\ stopRequested = FALSE
    /\ measuring = FALSE
    /\ producerPc = "idle"
    /\ producerFrame = <<>>
    /\ nextFrame = <<>>
    /\ closePc = "idle"
    /\ produced = 0
    /\ sentSeq = 0
    /\ outstanding = {}
    /\ startedId = -1
    /\ resetOwed = TRUE
    /\ lastStep = [kind |-> "none"]
    /\ frameDelay = 0
    /\ requestedFrameRate = 60
    /\ frameRateEstimates = <<>>
    /\ lastFrameRateEstimation = 0
    /\ wallClock = StartOfRun

\* VideoStream::Private right after construction.
InitStreamPrivate ==
    /\ InitStreamFields
    /\ rectInput = <<>>
    /\ rectOutput = <<>>

InitStreamVars == InitStreamPrivate /\ gfxContext = "null" /\ submitterPc = "none"

InitPairer == InitPairerVars /\ forcedEncoder = "" /\ ~started /\ InitStreamVars

NextPairer == PacketArrives \/ MetadataArrives \/ SizeChanged \/ Tick

SpecPairer == InitPairer /\ [][NextPairer]_vars

\* A burst of non-key packets with sparse metadata: the same handlers, with
\* more packets and PlainMeta records only.
BurstPacketArrives ==
    /\ packetCount < MaxBurst
    /\ onPacketReceived(FALSE)
    /\ plasma' = plasmaOnPacketReceived(FALSE)

BurstMetadataArrives ==
    /\ metaCount < MaxMetas
    /\ frameMetadata(PlainMeta)
    /\ plasma' = plasmaFrameMetadata(PlainMeta)

NextBurst == BurstPacketArrives \/ BurstMetadataArrives \/ SizeChanged \/ Tick

SpecBurst == InitPairer /\ [][NextBurst]_vars

----------------------------------------------------------------------------
\* VideoStream.

MaxFrames == 5          \* queueFrame calls in one run of SpecStream
MaxOddQueued == 1       \* frames without payload or size in the queue at a time
MaxResets == 2          \* reset() calls that take effect in one run
ResetsBefore == 65533   \* resets of the connection before a run of SpecSurfaces
MaxLifecycleFrames == 2 \* queueFrame calls in one run of SpecLifecycle
MaxAckFrames == 3       \* queueFrame calls in one run of SpecAck
MaxShortRow == 40       \* rectangles in the short rows of damage of SpecRects
MaxMixedRow == 70       \* rectangles in the row that has a mergeable pair beside it
MaxRow == 130           \* rectangles in the longest row of damage of SpecRects
MaxRateFrames == 2      \* queueFrame calls in one run of SpecRate
MaxRttChanges == 2      \* rttChanged signals in one run of SpecRate
MaxClockSteps == 2      \* advances of the clock in one run of SpecRate
ClockStep == 600        \* ms by which the clock advances at a time

\* RDPGFX capability versions and flags (rdpgfx.h), as tested by onCapsAdvertise.
RDPGFX_CAPVERSION_8 == 524292
RDPGFX_CAPVERSION_81 == 524549
RDPGFX_CAPVERSION_10 == 655362
RDPGFX_CAPVERSION_101 == 655616
RDPGFX_CAPVERSION_102 == 655872
RDPGFX_CAPVERSION_103 == 656129
RDPGFX_CAPVERSION_104 == 656384
RDPGFX_CAPVERSION_105 == 656642
RDPGFX_CAPVERSION_106 == 656896
RDPGFX_CAPVERSION_107 == 657153

CapSet(version, flags) == [version |-> version, flags |-> flags]

\* The VideoFrame values handed to queueFrame; seq numbers the calls.
StreamFrame(seq, kind) ==
    [seq |-> seq,
     data |-> IF kind = "nodata" THEN 0 ELSE seq,
     isKeyFrame |-> kind = "key",
     size |-> IF kind = "nosize" THEN InvalidSize ELSE QSize(1920, 1080),
     damage |-> IF kind = "nosize" THEN {}
                ELSE IF kind = "delta" THEN SmallDamage
                ELSE fullFrameDamage(QSize(1920, 1080))]

FrameKinds == {"delta", "nodata", "nosize"}

isOdd(frame) == frame.data = 0 \/ sizeIsEmpty(frame.size)

OddQueued == Cardinality({i \in DOMAIN frameQueue : isOdd(frameQueue[i])})

\* The latest step was of this kind and has no detail to record.
streamIdle(kind) == lastStep' = [kind |-> kind]

\* QList::takeLast in the place of takeFirst.
takeLast(q) == [frame |-> q[Len(q)], rest |-> SubSeq(q, 1, Len(q) - 1)]

\* QList::takeFirst
takeFirst(q) == [frame |-> Head(q), rest |-> Tail(q)]

\* queueFrame without the loop that drops the oldest frames.
trimQueue_keepsAll(q) == q

\* queueFrame: while (size > MaxQueuedFrames) takeFirst()
RECURSIVE trimQueue(_)
trimQueue(q) ==
    IF Len(q) > MaxQueuedFrames THEN trimQueue(takeFirst(q).rest) ELSE q

\* VideoStream::initialize; creating or opening the context may fail.
initialize ==
    /\ closePc = "idle"
    /\ IF gfxContext # "null"
       THEN UNCHANGED <<gfxContext, submitterPc>>
       ELSE \E outcome \in {"null", "unopened", "open"} :
                /\ gfxContext' = outcome
                /\ submitterPc' = IF outcome = "open" THEN "wait" ELSE submitterPc
    /\ lastStep' = [kind |-> "initialize",
                    result |-> gfxContext # "null" \/ gfxContext' = "open",
                    before |-> [gfxContext |-> gfxContext]]
    /\ UNCHANGED <<frameQueue, enabled, capsConfirmed, pendingReset, nextSurfaceId,
                   surface, frameId, encodedFrames, pendingFrames, stopRequested,
                   measuring, producerPc, producerFrame, nextFrame,
                   closePc, produced, sentSeq>>
    /\ UNCHANGED <<frameDelay, outstanding, startedId, resetOwed>>
    /\ UNCHANGED besideStream

\* VideoStream::queueFrame up to the mutex: the state test.  The state of the
\* RdpConnection is an input.
queueFrameEnter(frame, streaming) ==
    /\ producerPc = "idle"
    /\ IF streaming /\ enabled
       THEN producerPc' = "append" /\ producerFrame' = frame
       ELSE UNCHANGED <<producerPc, producerFrame>>
    /\ produced' = produced + 1
    /\ streamIdle("queueFrame")
    /\ UNCHANGED <<gfxContext, frameQueue, enabled, capsConfirmed, pendingReset,
                   nextSurfaceId, surface, frameId, encodedFrames, pendingFrames,
                   stopRequested, measuring, submitterPc, nextFrame,
                   closePc, sentSeq>>
    /\ UNCHANGED <<frameDelay, outstanding, startedId, resetOwed>>
    /\ UNCHANGED besideStream

\* VideoStream::queueFrame under the mutex: append, then drop the oldest.
queueFrameAppend ==
    /\ producerPc = "append"
    /\ frameQueue' = trimQueue(Append(frameQueue, producerFrame))
    /\ producerPc' = "idle"
    /\ producerFrame' = <<>>
    /\ lastStep' = [kind |-> "push", before |-> frameQueue, frame |-> producerFrame]
    /\ UNCHANGED <<gfxContext, enabled, capsConfirmed, pendingReset, nextSurfaceId,
                   surface, frameId, encodedFrames, pendingFrames, stopRequested,
                   measuring, submitterPc, nextFrame, closePc,
                   produced, sentSeq>>
    /\ UNCHANGED <<frameDelay, outstanding, startedId, resetOwed>>
    /\ UNCHANGED besideStream

QueueFrame ==
    \/ /\ produced < MaxFrames
       /\ \E kind \in FrameKinds, streaming \in BOOLEAN :
              /\ kind \in {"nodata", "nosize"} => OddQueued < MaxOddQueued
              /\ queueFrameEnter(StreamFrame(produced + 1, kind), streaming)
    \/ queueFrameAppend

\* VideoStream::reset
reset ==
    /\ pendingReset' = TRUE
    /\ resetOwed' = TRUE
    /\ streamIdle("reset")
    /\ UNCHANGED <<gfxContext, frameQueue, enabled, capsConfirmed, nextSurfaceId,
                   surface, frameId, encodedFrames, pendingFrames, stopRequested,
                   measuring, producerPc, producerFrame, submitterPc,
                   nextFrame, closePc, produced, sentSeq>>
    /\ UNCHANGED <<frameDelay, outstanding, startedId>>
    /\ UNCHANGED besideStream

\* reset() is called a few times in a run.
Reset == nextSurfaceId <= MaxResets /\ reset

\* VideoStream::setEnabled
setEnabled(e) ==
    /\ enabled # e
    /\ enabled' = e
    /\ frameQueue' = IF e THEN frameQueue ELSE <<>>
    /\ streamIdle("setEnabled")
    /\ UNCHANGED <<gfxContext, capsConfirmed, pendingReset, nextSurfaceId, surface,
                   frameId, encodedFrames, pendingFrames, stopRequested, measuring,
                   producerPc, producerFrame, submitterPc, nextFrame,
                   closePc, produced, sentSeq>>
    /\ UNCHANGED <<frameDelay, outstanding, startedId, resetOwed>>
    /\ UNCHANGED besideStream

SetEnabled == \E e \in BOOLEAN : setEnabled(e)

\* onCapsAdvertise: what one capability set supports.
capsInformation(set) ==
    LET v == set.version
        yuv420 == v \in {RDPGFX_CAPVERSION_107, RDPGFX_CAPVERSION_106,
                          RDPGFX_CAPVERSION_105, RDPGFX_CAPVERSION_104}
        avc10 == /\ v \in {RDPGFX_CAPVERSION_107, RDPGFX_CAPVERSION_106,
                            RDPGFX_CAPVERSION_105, RDPGFX_CAPVERSION_104,
                            RDPGFX_CAPVERSION_103, RDPGFX_CAPVERSION_102,
                            RDPGFX_CAPVERSION_101, RDPGFX_CAPVERSION_10}
                 /\ "AVC_DISABLED" \notin set.flags
        avc81 == v = RDPGFX_CAPVERSION_81 /\ "AVC420_ENABLED" \in set.flags
    IN [version |-> v, capSet |-> set,
        avcSupported |-> avc10 \/ avc81,
        yuv420Supported |-> yuv420 \/ avc81]

\* std::max_element by version: the first of the largest.
maxVersion(infos) ==
    LET i == CHOOSE k \in DOMAIN infos :
                 /\ \A o \in DOMAIN infos : infos[o].version <= infos[k].version
                 /\ \A o \in 1..(k - 1) : infos[o].version < infos[k].version
    IN infos[i]

\* onCapsAdvertise: a capability set supports H.264 in YUV420 mode.
supportsAvc420(caps) == caps.avcSupported /\ caps.yuv420Supported

\* onCapsAdvertise: some capability set supports H.264 in YUV420 mode.
capsSupported_avcOnly(infos) ==
    \E i \in DOMAIN infos : infos[i].avcSupported

capsSupported(infos) ==
    \E i \in DOMAIN infos : supportsAvc420(infos[i])

\* Position of the element std::max_element returns.
maxVersionIndex(infos) ==
    CHOOSE k \in DOMAIN infos : infos[k] = maxVersion(infos)
                                /\ \A o \in 1..(k - 1) : infos[o] # infos[k]

\* VideoStream::onCapsAdvertise
onCapsAdvertise(capsSets) ==
    LET infos == [i \in DOMAIN capsSets |-> capsInformation(capsSets[i])]
        supported == capsSupported(infos)
    IN /\ gfxContext = "open"
       /\ IF ~supported
          THEN \* session->close(VideoInitFailed)
               /\ lastStep' = [kind |-> "caps", capsSets |-> capsSets,
                               status |-> "CHANNEL_RC_INITIALIZATION_ERROR",
                               closeReason |-> "VideoInitFailed",
                               confirm |-> <<>>, selected |-> 0,
                               before |-> [capsConfirmed |-> capsConfirmed]]
               /\ UNCHANGED capsConfirmed
          ELSE /\ capsConfirmed' = TRUE
               /\ lastStep' = [kind |-> "caps", capsSets |-> capsSets,
                               status |-> "CHANNEL_RC_OK",
                               closeReason |-> "none",
                               confirm |-> <<maxVersion(infos).capSet>>,
                               selected |-> maxVersionIndex(infos),
                               before |-> [capsConfirmed |-> capsConfirmed]]
       /\ UNCHANGED <<gfxContext, frameQueue, enabled, pendingReset, nextSurfaceId,
                      surface, frameId, encodedFrames, pendingFrames, stopRequested,
                      measuring, producerPc, producerFrame, submitterPc, nextFrame,
                      closePc, produced, sentSeq>>
       /\ UNCHANGED <<frameDelay, outstanding, startedId, resetOwed>>
       /\ UNCHANGED besideStream

\* Capability lists of a client in the runs of the stream: one that is
\* confirmed, one that is refused, one of two sets.
CapsInputs ==
    {<<CapSet(RDPGFX_CAPVERSION_104, {})>>,
     <<CapSet(RDPGFX_CAPVERSION_8, {})>>,
     <<CapSet(RDPGFX_CAPVERSION_81, {"AVC420_ENABLED"}),
       CapSet(RDPGFX_CAPVERSION_107, {"AVC_DISABLED"})>>}

\* Capability lists of a client in the runs of the negotiation: those above,
\* the lists of scenarios S1 and S2, a set with H.264 disabled, two sets of
\* one version, an empty list.
AdvertisedCaps ==
    CapsInputs \cup
    {<<CapSet(RDPGFX_CAPVERSION_10, {})>>,
     <<CapSet(RDPGFX_CAPVERSION_107, {}), CapSet(RDPGFX_CAPVERSION_103, {})>>,
     <<CapSet(RDPGFX_CAPVERSION_106, {"AVC_DISABLED"})>>,
     <<CapSet(RDPGFX_CAPVERSION_105, {}),
       CapSet(RDPGFX_CAPVERSION_105, {"SMALL_CACHE"})>>,
     <<>>}

CapsAdvertise == \E capsSets \in CapsInputs : onCapsAdvertise(capsSets)

\* frameSubmissionThread: the wait is over with a frame queued and no stop
\* requested; the oldest frame is taken under the mutex.
submitterTake ==
    /\ submitterPc = "wait"
    /\ ~stopRequested
    /\ frameQueue # <<>>
    /\ LET taken == takeFirst(frameQueue)
       IN /\ nextFrame' = taken.frame
          /\ frameQueue' = taken.rest
    /\ submitterPc' = "send"
    /\ lastStep' = [kind |-> "take", before |-> frameQueue]
    /\ UNCHANGED <<gfxContext, enabled, capsConfirmed, pendingReset, nextSurfaceId,
                   surface, frameId, encodedFrames, pendingFrames, stopRequested,
                   measuring, producerPc, producerFrame, closePc,
                   produced, sentSeq>>
    /\ UNCHANGED <<frameDelay, outstanding, startedId, resetOwed>>
    /\ UNCHANGED besideStream

\* frameSubmissionThread: the stop request ends the loop.
submitterStop ==
    /\ submitterPc = "wait"
    /\ stopRequested
    /\ submitterPc' = "stopped"
    /\ streamIdle("stop")
    /\ UNCHANGED <<gfxContext, frameQueue, enabled, capsConfirmed, pendingReset,
                   nextSurfaceId, surface, frameId, encodedFrames, pendingFrames,
                   stopRequested, measuring, producerPc, producerFrame,
                   nextFrame, closePc, produced, sentSeq>>
    /\ UNCHANGED <<frameDelay, outstanding, startedId, resetOwed>>
    /\ UNCHANGED besideStream

\* performReset: the PDUs it sends for a surface of the given id and size.
performReset(surfaceId, s) ==
    <<[pdu |-> "ResetGraphics", width |-> s.w, height |-> s.h],
      [pdu |-> "CreateSurface", surfaceId |-> surfaceId, width |-> s.w, height |-> s.h],
      [pdu |-> "MapSurfaceToOutput", surfaceId |-> surfaceId]>>

\* sendFrame: the bounding box of the damage rectangles.
damageBounds(damageRects) ==
    [left |-> CHOOSE v \in {damageRects[i].left : i \in DOMAIN damageRects} :
                  \A i \in DOMAIN damageRects : v <= damageRects[i].left,
     top |-> CHOOSE v \in {damageRects[i].top : i \in DOMAIN damageRects} :
                 \A i \in DOMAIN damageRects : v <= damageRects[i].top,
     right |-> CHOOSE v \in {damageRects[i].right : i \in DOMAIN damageRects} :
                   \A i \in DOMAIN damageRects : v >= damageRects[i].right,
     bottom |-> CHOOSE v \in {damageRects[i].bottom : i \in DOMAIN damageRects} :
                    \A i \in DOMAIN damageRects : v >= damageRects[i].bottom]

\* sendFrame with the payload test left out of its early returns.
sendFrameGated_ignoresPayload(context, caps, frame) ==
    context = "null" \/ ~caps

\* sendFrame: the early returns before anything is sent or counted.
sendFrameGated(context, caps, frame) ==
    context = "null" \/ ~caps \/ frame.data = 0

\* A frame id that is not advanced.
nextFrameId_stuck(id) == id

\* d->frameId++ (uint32_t; the runs here stay far below its wrap).
nextFrameId(id) == id + 1

\* sendFrame: whether performReset runs.
sendFrameResets(pending) == pending

\* What sendFrame found when it was called.
SendBefore ==
    [frame |-> nextFrame, caps |-> capsConfirmed, context |-> gfxContext,
     frameId |-> frameId, encodedFrames |-> encodedFrames,
     pendingFrames |-> pendingFrames, pendingReset |-> pendingReset,
     surface |-> surface, startedId |-> startedId, resetOwed |-> resetOwed,
     sentSeq |-> sentSeq]

\* A frame whose SURFACE_COMMAND goes out before its START_FRAME.
frameBracket_surfaceFirst(id, surfaceId, frame) ==
    LET bounds == damageBounds(toDamageRects(frame))
    IN <<[pdu |-> "SurfaceCommand", surfaceId |-> surfaceId,
          left |-> bounds.left, top |-> bounds.top,
          right |-> bounds.right, bottom |-> bounds.bottom,
          data |-> frame.data, meta |-> avc420Meta(frame)],
         [pdu |-> "StartFrame", frameId |-> id],
         [pdu |-> "EndFrame", frameId |-> id]>>

\* sendFrame: the PDUs of one frame, in the order of the StartFrame,
\* SurfaceCommand and EndFrame calls.
frameBracket(id, surfaceId, frame) ==
    LET bounds == damageBounds(toDamageRects(frame))
    IN <<[pdu |-> "StartFrame", frameId |-> id],
         [pdu |-> "SurfaceCommand", surfaceId |-> surfaceId,
          left |-> bounds.left, top |-> bounds.top,
          right |-> bounds.right, bottom |-> bounds.bottom,
          data |-> frame.data, meta |-> avc420Meta(frame)],
         [pdu |-> "EndFrame", frameId |-> id]>>

\* VideoStream::sendFrame(nextFrame), called by frameSubmissionThread.
sendFrame ==
    /\ submitterPc = "send"
    /\ submitterPc' = "wait"
    /\ nextFrame' = <<>>
    /\ IF sendFrameGated(gfxContext, capsConfirmed, nextFrame)
       THEN /\ lastStep' = [kind |-> "skip", wire |-> <<>>, before |-> SendBefore]
            /\ UNCHANGED <<pendingReset, nextSurfaceId, surface, frameId, encodedFrames,
                           pendingFrames, measuring, sentSeq, outstanding, startedId,
                           resetOwed>>
       ELSE LET resets == sendFrameResets(pendingReset)
                surface1 == IF resets
                            THEN [id |-> nextSurfaceId, size |-> nextFrame.size]
                            ELSE surface
                resetPdus == IF resets
                             THEN performReset(nextSurfaceId, nextFrame.size) ELSE <<>>
                damageRects == toDamageRects(nextFrame)
                framePdus == frameBracket(frameId, surface1.id, nextFrame)
            IN /\ pendingReset' = FALSE
               /\ nextSurfaceId' = IF resets THEN (nextSurfaceId + 1) % 65536
                                   ELSE nextSurfaceId
               /\ surface' = surface1
               /\ frameId' = nextFrameId(frameId)
               /\ encodedFrames' = encodedFrames + 1
               /\ pendingFrames' = pendingFrames \cup {frameId}
               /\ IF damageRects = <<>>
                  THEN /\ measuring' = TRUE
                       /\ lastStep' = [kind |-> "abort", wire |-> resetPdus,
                                       before |-> SendBefore]
                       /\ UNCHANGED <<sentSeq, outstanding, startedId, resetOwed>>
                  ELSE /\ measuring' = FALSE
                       /\ lastStep' = [kind |-> "send", wire |-> resetPdus \o framePdus,
                                       before |-> SendBefore]
                       /\ sentSeq' = nextFrame.seq
                       /\ outstanding' = outstanding \cup {frameId}
                       /\ startedId' = frameId
                       /\ resetOwed' = FALSE
    /\ UNCHANGED <<gfxContext, frameQueue, enabled, capsConfirmed, stopRequested,
                   producerPc, producerFrame, closePc, produced>>
    /\ UNCHANGED frameDelay
    /\ UNCHANGED besideStream

\* VideoStream::close, first part: close the context; without a thread to
\* join, emit closed.
closeContext ==
    /\ closePc = "idle"
    /\ gfxContext # "null"
    /\ gfxContext' = "closed"
    /\ IF submitterPc \in {"wait", "send", "stopped"}
       THEN closePc' = "stop" /\ streamIdle("close")
       ELSE closePc' = "idle" /\ streamIdle("closed")
    /\ UNCHANGED <<frameQueue, enabled, capsConfirmed, pendingReset, nextSurfaceId,
                   surface, frameId, encodedFrames, pendingFrames, stopRequested,
                   measuring, producerPc, producerFrame, submitterPc,
                   nextFrame, produced, sentSeq>>
    /\ UNCHANGED <<frameDelay, outstanding, startedId, resetOwed>>
    /\ UNCHANGED besideStream

\* close() that goes on to join without request_stop.
closeRequestStop_forgetsStop ==
    /\ closePc = "stop"
    /\ closePc' = "join"
    /\ streamIdle("close")
    /\ UNCHANGED <<gfxContext, frameQueue, enabled, capsConfirmed, pendingReset,
                   nextSurfaceId, surface, frameId, encodedFrames, pendingFrames,
                   measuring, producerPc, producerFrame, submitterPc,
                   nextFrame, produced, sentSeq, stopRequested>>
    /\ UNCHANGED <<frameDelay, outstanding, startedId, resetOwed>>
    /\ UNCHANGED besideStream

\* VideoStream::close, second part: request_stop and notify_all.
closeRequestStop ==
    /\ closePc = "stop"
    /\ stopRequested' = TRUE
    /\ closePc' = "join"
    /\ streamIdle("close")
    /\ UNCHANGED <<gfxContext, frameQueue, enabled, capsConfirmed, pendingReset,
                   nextSurfaceId, surface, frameId, encodedFrames, pendingFrames,
                   measuring, producerPc, producerFrame, submitterPc,
                   nextFrame, produced, sentSeq>>
    /\ UNCHANGED <<frameDelay, outstanding, startedId, resetOwed>>
    /\ UNCHANGED besideStream

\* VideoStream::close, last part: join returns once the thread has ended;
\* emit closed.
closeJoin ==
    /\ closePc = "join"
    /\ submitterPc = "stopped"
    /\ submitterPc' = "joined"
    /\ closePc' = "idle"
    /\ streamIdle("closed")
    /\ UNCHANGED <<gfxContext, frameQueue, enabled, capsConfirmed, pendingReset,
                   nextSurfaceId, surface, frameId, encodedFrames, pendingFrames,
                   stopRequested, measuring, producerPc, producerFrame,
                   nextFrame, produced, sentSeq>>
    /\ UNCHANGED <<frameDelay, outstanding, startedId, resetOwed>>
    /\ UNCHANGED besideStream

Close == closeContext \/ closeRequestStop \/ closeJoin

Submitter == submitterTake \/ sendFrame

\* The stream after initialize() returned true: context open, thread waiting.
InitStream ==
    /\ InitPairerVars /\ metadataSignalAvailable /\ forcedEncoder = "" /\ ~started
    /\ InitStreamPrivate /\ gfxContext = "open" /\ submitterPc = "wait"

NextStream ==
    \/ QueueFrame
    \/ SetEnabled
    \/ Reset
    \/ CapsAdvertise
    \/ Submitter

SpecStream == InitStream /\ [][NextStream]_vars

\* VideoStream::onFrameAcknowledge; the SUSPEND bit of queueDepth is only logged.
onFrameAcknowledge(id, totalFramesDecoded) ==
    /\ gfxContext = "open"
    /\ IF id \notin pendingFrames
       THEN UNCHANGED <<frameDelay, pendingFrames>>
       ELSE /\ frameDelay' = encodedFrames - totalFramesDecoded
            /\ pendingFrames' = pendingFrames \ {id}
    /\ outstanding' = outstanding \ {id}
    /\ lastStep' = [kind |-> "ack", id |-> id, status |-> "CHANNEL_RC_OK",
                    totalFramesDecoded |-> totalFramesDecoded,
                    before |-> [pendingFrames |-> pendingFrames, frameDelay |-> frameDelay]]
    /\ UNCHANGED <<gfxContext, frameQueue, enabled, capsConfirmed, pendingReset,
                   nextSurfaceId, surface, frameId, encodedFrames, stopRequested,
                   measuring, producerPc, producerFrame, submitterPc, nextFrame,
                   closePc, produced, sentSeq, startedId, resetOwed>>
    /\ UNCHANGED besideStream

\* totalFramesDecoded of an acknowledgement: the client has decoded no frame
\* yet, or one.
DecodedCounts == {0, 1}

FrameAcknowledge ==
    \E id \in 0..(MaxAckFrames - 1), totalFramesDecoded \in DecodedCounts :
        onFrameAcknowledge(id, totalFramesDecoded)

\* The stream with the client's acknowledgements, with fewer frames.
AckQueueFrame ==
    \/ /\ produced < MaxAckFrames
       /\ \E kind \in FrameKinds, streaming \in BOOLEAN :
              queueFrameEnter(StreamFrame(produced + 1, kind), streaming)
    \/ queueFrameAppend

NextAck ==
    \/ AckQueueFrame
    \/ SetEnabled
    \/ Reset
    \/ CapsAdvertise
    \/ Submitter
    \/ FrameAcknowledge

SpecAck == InitStream /\ [][NextAck]_vars

\* A connection late in its life: ResetsBefore times reset() was called and
\* a frame queued, sent and acknowledged; reset() has just been called again.
InitSurfaces ==
    /\ InitPairerVars /\ metadataSignalAvailable /\ forcedEncoder = "" /\ ~started
    /\ gfxContext = "open" /\ submitterPc = "wait"
    /\ rectInput = <<>> /\ rectOutput = <<>>
    /\ frameQueue = <<>>
    /\ enabled = TRUE
    /\ capsConfirmed = TRUE
    /\ pendingReset = TRUE
    /\ nextSurfaceId = (1 + ResetsBefore) % 65536
    /\ surface = [id |-> ResetsBefore % 65536, size |-> QSize(1920, 1080)]
    /\ frameId = ResetsBefore
    /\ encodedFrames = ResetsBefore
    /\ pendingFrames = {}
    /\ stopRequested = FALSE
    /\ measuring = FALSE
    /\ producerPc = "idle"
    /\ producerFrame = <<>>
    /\ nextFrame = <<>>
    /\ closePc = "idle"
    /\ produced = ResetsBefore
    /\ sentSeq = ResetsBefore
    /\ outstanding = {}
    /\ startedId = ResetsBefore - 1
    /\ resetOwed = TRUE
    /\ lastStep = [kind |-> "reset"]
    /\ frameDelay = 0
    /\ requestedFrameRate = 60
    /\ frameRateEstimates = <<>>
    /\ lastFrameRateEstimation = 0
    /\ wallClock = StartOfRun

LateQueueFrame ==
    \/ /\ produced < ResetsBefore + MaxFrames
       /\ queueFrameEnter(StreamFrame(produced + 1, "delta"), TRUE)
    \/ queueFrameAppend

LateReset ==
    /\ (nextSurfaceId + 65536 - ((1 + ResetsBefore) % 65536)) % 65536 <= MaxResets
    /\ reset

NextSurfaces ==
    \/ LateQueueFrame
    \/ LateReset
    \/ Submitter

SpecSurfaces == InitSurfaces /\ [][NextSurfaces]_vars

\* The life of the stream from construction to closed, with few frames.
InitLifecycle ==
    InitPairerVars /\ metadataSignalAvailable /\ forcedEncoder = "" /\ ~started /\ InitStreamVars

LifecycleQueueFrame ==
    \/ /\ produced < MaxLifecycleFrames
       /\ \E kind \in FrameKinds, streaming \in BOOLEAN :
              queueFrameEnter(StreamFrame(produced + 1, kind), streaming)
    \/ queueFrameAppend

NextLifecycle ==
    \/ initialize
    \/ LifecycleQueueFrame
    \/ SetEnabled
    \/ CapsAdvertise
    \/ Submitter
    \/ submitterStop
    \/ Close

SpecLifecycle == InitLifecycle /\ [][NextLifecycle]_vars

\* The same with the progress the threads make: the submission thread goes
\* on whenever it can (its waits are timed), a call of sendFrame returns, and
\* a close() that has started goes on to request_stop and returns from join
\* once the thread has ended.  sendFrame is enabled exactly while submitterPc
\* is "send", so its weak fairness is []<>(submitterPc # "send").
SpecCancel ==
    /\ InitLifecycle
    /\ [][NextLifecycle]_vars
    /\ WF_vars(submitterTake)
    /\ WF_vars(submitterStop)
    /\ []<>(submitterPc # "send")
    /\ WF_vars(closeRequestStop)
    /\ WF_vars(closeJoin)

\* toDamageRects as a function of the frame: the frame is drawn from
\* RectFrames and the function applied to it once.
RowDamage(n, step, y) == {QRect(i * step, y, 1, 1) : i \in 0..(n - 1)}

RectFrame(frameSize, damage, isKeyFrame) ==
    [seq |-> 1, data |-> 1, isKeyFrame |-> isKeyFrame, size |-> frameSize,
     damage |-> damage]

\* Rows of 1x1 rectangles: two pixels apart a pair qualifies for merging,
\* three pixels apart none does.
RowSteps == {2, 3}

LongRows == ((MaxCoalescedDamageRects - 1)..(MaxCoalescedDamageRects + 2))
            \cup ((MaxDamageRectCount - 1)..MaxRow)

RectFrames ==
    {RectFrame(QSize(1920, 1080), RowDamage(n, step, 0), FALSE) :
        n \in (1..MaxShortRow) \cup LongRows, step \in RowSteps}
    \cup {RectFrame(QSize(1920, 1080),
                    RowDamage(MaxMixedRow, 3, 0) \cup RowDamage(2, 2, 10), FALSE),
          RectFrame(QSize(1920, 1080), RowDamage(MaxMixedRow, 3, 0), TRUE),
          RectFrame(QSize(1920, 1080), {}, FALSE),
          RectFrame(InvalidSize, {}, FALSE),
          RectFrame(QSize(4, 4), QRegion(QRect(10, 10, 2, 2)), FALSE),
          RectFrame(QSize(4, 4), QRegion(QRect(3, 3, 2, 2)), FALSE),
          RectFrame(QSize(MaxRdpCoordinate, 8),
                    QRegion(QRect(MaxRdpCoordinate - 1, 0, 1, 1)), FALSE),
          RectFrame(QSize(MaxRdpCoordinate + 5, 8),
                    QRegion(QRect(MaxRdpCoordinate - 2, 0, 2, 2)), FALSE),
          RectFrame(QSize(MaxRdpCoordinate + 5, 8),
                    QRegion(QRect(MaxRdpCoordinate - 2, 0, 4, 2)), FALSE),
          RectFrame(QSize(MaxRdpCoordinate + 5, 8),
                    QRegion(QRect(MaxRdpCoordinate, 0, 1, 1)), FALSE),
          RectFrame(QSize(MaxRdpCoordinate + 5, 8),
                    QRegion(QRect(MaxRdpCoordinate + 1, 2, 3, 3)), FALSE),
          RectFrame(QSize(8, MaxRdpCoordinate + 5),
                    QRegion(QRect(2, MaxRdpCoordinate + 1, 3, 3)), FALSE)}

InitRects ==
    /\ InitPairerVars /\ metadataSignalAvailable /\ forcedEncoder = "" /\ ~started
    /\ InitStreamFields /\ gfxContext = "null" /\ submitterPc = "none"
    /\ rectInput \in RectFrames
    /\ rectOutput = <<>>

\* What toDamageRects leaves alone: everything but its argument, its result
\* and its position.
besideRects ==
    <<pairerVars, rateVars, sessionVars, gfxContext, frameQueue, enabled, capsConfirmed,
      pendingReset, nextSurfaceId, surface, frameId, encodedFrames, pendingFrames,
      stopRequested, measuring, producerPc, producerFrame, submitterPc, nextFrame,
      closePc, produced, sentSeq, frameDelay, outstanding, startedId, resetOwed>>

\* toDamageRects up to the merge loop: it returns at once for a frame without
\* size, a key frame, no damage or too many rectangles.
toDamageRectsEnter ==
    /\ lastStep.kind = "none"
    /\ IF returnsEarly(rectInput)
       THEN /\ rectOutput' = toDamageRects(rectInput)
            /\ lastStep' = [kind |-> "rects", early |-> TRUE, merged |-> TRUE,
                            sourceRects |-> 0]
       ELSE LET frameBounds == frameRect(rectInput.size)
                damageRects ==
                    regionRects(regionIntersected(rectInput.damage, frameBounds))
            IN /\ lastStep' = [kind |-> "merging", merged |-> TRUE,
                               damageRects |-> damageRects,
                               sourceRects |-> Len(damageRects)]
               /\ UNCHANGED rectOutput
    /\ UNCHANGED rectInput
    /\ UNCHANGED besideRects

\* One pass of the while loop.
toDamageRectsMerge ==
    /\ lastStep.kind = "merging"
    /\ mergeLoopRuns(lastStep.merged, Len(lastStep.damageRects))
    /\ IF hasMergePair(lastStep.damageRects)
       THEN lastStep' = [lastStep EXCEPT !.damageRects = mergeOnce(@)]
       ELSE lastStep' = [lastStep EXCEPT !.merged = FALSE]
    /\ UNCHANGED <<rectInput, rectOutput>>
    /\ UNCHANGED besideRects

\* The loop is over: the final loop and the return.
toDamageRectsReturn ==
    /\ lastStep.kind = "merging"
    /\ ~mergeLoopRuns(lastStep.merged, Len(lastStep.damageRects))
    /\ rectOutput' = damageRectsAfterMerge(lastStep.damageRects,
                                           frameRect(rectInput.size))
    /\ lastStep' = [kind |-> "rects", early |-> FALSE, merged |-> lastStep.merged,
                    sourceRects |-> lastStep.sourceRects]
    /\ UNCHANGED rectInput
    /\ UNCHANGED besideRects

NextRects ==
    \/ toDamageRectsEnter
    \/ toDamageRectsMerge
    \/ toDamageRectsReturn

SpecRects == InitRects /\ [][NextRects]_vars

\* The frame rate the stream asks of the encoder.

\* constexpr FrameRateEstimateAveragePeriod = 1 s, in ms.
FrameRateEstimateAveragePeriod == 1000

\* VideoStream::Private::maximumFrameRate
maximumFrameRate == 120

RECURSIVE sumEstimates(_)
sumEstimates(estimates) ==
    IF estimates = <<>> THEN 0
    ELSE Head(estimates).estimate + sumEstimates(Tail(estimates))

\* What updateRequestedFrameRate leaves alone.
besideRate ==
    <<pairerVars, rectVars, sessionVars, gfxContext, frameQueue, enabled, capsConfirmed,
      pendingReset, nextSurfaceId, surface, frameId, encodedFrames, pendingFrames,
      stopRequested, measuring, producerPc, producerFrame, submitterPc, nextFrame,
      closePc, produced, sentSeq, frameDelay, outstanding, startedId, resetOwed>>

\* updateRequestedFrameRate: the estimate of one call.
frameRateEstimate(averageRTT, delay) ==
    LET rtt == Max2(averageRTT, 1)
    IN Min2(1000 \div (rtt * Max2(delay, 1)), maximumFrameRate)

\* updateRequestedFrameRate: std::max(1.0, average * 0.5), stored in an int.
targetFrameRate(average) == Max2(1, average \div 2)

\* VideoStream::updateRequestedFrameRate, the slot of rttChanged; averageRTT
\* is the NetworkDetection's average round trip time in ms.
updateRequestedFrameRate(averageRTT) ==
    LET timeNow == wallClock
        estimate == [timeStamp |-> timeNow,
                     estimate |-> frameRateEstimate(averageRTT, frameDelay)]
        appended == Append(frameRateEstimates, estimate)
        kept == SelectSeq(appended,
                          LAMBDA e : ~(e.timeStamp - timeNow > FrameRateEstimateAveragePeriod))
        average == sumEstimates(kept) \div Len(kept)
    IN /\ IF timeNow - lastFrameRateEstimation < FrameRateEstimateAveragePeriod
          THEN /\ frameRateEstimates' = appended
               /\ UNCHANGED <<lastFrameRateEstimation, requestedFrameRate>>
          ELSE /\ lastFrameRateEstimation' = timeNow
               /\ frameRateEstimates' = kept
               /\ requestedFrameRate' = targetFrameRate(average)
       /\ lastStep' = [kind |-> "rtt", averageRTT |-> averageRTT,
                       averaged |-> ~(timeNow - lastFrameRateEstimation
                                          < FrameRateEstimateAveragePeriod),
                       before |-> [requestedFrameRate |-> requestedFrameRate,
                                   frameDelay |-> frameDelay]]
       /\ UNCHANGED wallClock
       /\ UNCHANGED besideRate

\* Round trip times the network detection reports, in ms.
RttInputs == {0, 200, 1500}

RttChanged ==
    /\ gfxContext = "open"
    /\ Len(frameRateEstimates) < MaxRttChanges
    /\ \E averageRTT \in RttInputs : updateRequestedFrameRate(averageRTT)

\* Time passes.
ClockAdvances ==
    /\ wallClock < StartOfRun + MaxClockSteps * ClockStep
    /\ wallClock' = wallClock + ClockStep
    /\ streamIdle("clock")
    /\ UNCHANGED <<requestedFrameRate, frameRateEstimates, lastFrameRateEstimation>>
    /\ UNCHANGED besideRate

\* The stream around it, with the inputs that lead to acknowledged frames:
\* ordinary frames on an enabled stream with confirmed capabilities.
RateQueueFrame ==
    \/ /\ produced < MaxRateFrames
       /\ queueFrameEnter(StreamFrame(produced + 1, "delta"), TRUE)
    \/ queueFrameAppend

RateSetEnabled == ~enabled /\ setEnabled(TRUE)

RateCapsAdvertise ==
    ~capsConfirmed /\ onCapsAdvertise(<<CapSet(RDPGFX_CAPVERSION_104, {})>>)

RateAcknowledge ==
    \E id \in 0..(MaxRateFrames - 1), totalFramesDecoded \in DecodedCounts :
        onFrameAcknowledge(id, totalFramesDecoded)

NextRate ==
    \/ RateQueueFrame
    \/ RateSetEnabled
    \/ RateCapsAdvertise
    \/ Submitter
    \/ RateAcknowledge
    \/ RttChanged
    \/ ClockAdvances

SpecRate == InitStream /\ [][NextRate]_vars

\* The capability exchange with every list of AdvertisedCaps, repeated and
\* interleaved with a few frames.
CapsNegotiation == \E capsSets \in AdvertisedCaps : onCapsAdvertise(capsSets)

NextCaps ==
    \/ LifecycleQueueFrame
    \/ SetEnabled
    \/ CapsNegotiation
    \/ Submitter

SpecCaps == InitStream /\ [][NextCaps]_vars

----------------------------------------------------------------------------
\* The encoder fallback of AbstractSession: handleStreamError and the
\* handlers of the encoded stream's stateChanged and activeChanged signals.
\* The encoded stream exists (stream() connected the handlers); when its
\* state changes is up to the encoder.

MaxErrors == 3          \* errorFound signals in one run

fallbackUnavailable_never == FALSE

\* softwareFallbackAttempted || alreadyForcedSoftware
fallbackUnavailable == softwareFallbackAttempted \/ forcedEncoder = "libx264"

\* AbstractSession::handleStreamStateChanged, given the value of
\* softwareFallbackRetryPending and the stream's state when it is called.
handleStreamStateChanged(pending, state) ==
    IF pending /\ state = "Idle" /\ sessionEnabled
    THEN /\ softwareFallbackRetryPending' = FALSE
         /\ softwareFallbackRetryInProgress' = TRUE
         /\ retriesStarted' = retriesStarted + 1
    ELSE /\ softwareFallbackRetryPending' = pending
         /\ UNCHANGED <<softwareFallbackRetryInProgress, retriesStarted>>

\* AbstractSession::handleStreamError
handleStreamError ==
    /\ errorsFound < MaxErrors
    /\ errorsFound' = errorsFound + 1
    /\ IF fallbackUnavailable
       THEN /\ UNCHANGED <<forcedEncoder, softwareFallbackAttempted,
                           softwareFallbackRetryPending,
                           softwareFallbackRetryInProgress, fallbacksForced,
                           retriesStarted>>
       ELSE /\ softwareFallbackAttempted' = TRUE
            /\ forcedEncoder' = "libx264"
            /\ fallbacksForced' = fallbacksForced + 1
            /\ IF encodedStreamState = "Idle"
               THEN handleStreamStateChanged(TRUE, encodedStreamState)
               ELSE /\ softwareFallbackRetryPending' = TRUE
                    /\ UNCHANGED <<softwareFallbackRetryInProgress, retriesStarted>>
    /\ sessionStep' =
           [kind |-> "error",
            emittedError |-> fallbackUnavailable,
            stopped |-> ~fallbackUnavailable /\ encodedStreamState # "Idle",
            before |-> [errorsFound |-> errorsFound,
                        forcedEncoder |-> forcedEncoder,
                        fallbacksForced |-> fallbacksForced,
                        retriesStarted |-> retriesStarted,
                        softwareFallbackRetryPending |-> softwareFallbackRetryPending]]
    /\ UNCHANGED <<encodedStreamState, sessionEnabled>>
    /\ UNCHANGED <<pairerVars, streamVars, rateVars, rectVars, requestVars>>

\* The encoded stream changes state and emits stateChanged.
StreamStateChanged ==
    /\ \E state \in EncodedStreamStates \ {encodedStreamState} :
           /\ encodedStreamState' = state
           /\ handleStreamStateChanged(softwareFallbackRetryPending, state)
    /\ sessionStep' = [kind |-> "stateChanged"]
    /\ UNCHANGED <<forcedEncoder, sessionEnabled, softwareFallbackAttempted,
                   errorsFound, fallbacksForced>>
    /\ UNCHANGED <<pairerVars, streamVars, rateVars, rectVars, requestVars>>

\* AbstractSession::handleStreamActiveChanged
handleStreamActiveChanged ==
    /\ \E active \in BOOLEAN :
           softwareFallbackRetryInProgress' =
               IF ~active \/ ~softwareFallbackRetryInProgress
               THEN softwareFallbackRetryInProgress
               ELSE FALSE
    /\ sessionStep' = [kind |-> "activeChanged"]
    /\ UNCHANGED <<forcedEncoder, encodedStreamState, sessionEnabled,
                   softwareFallbackAttempted, softwareFallbackRetryPending,
                   errorsFound, fallbacksForced, retriesStarted>>
    /\ UNCHANGED <<pairerVars, streamVars, rateVars, rectVars, requestVars>>

\* AbstractSession::setStreamingEnabled; the start() or stop() it asks of the
\* encoded stream of a started session shows as a later state change.
setStreamingEnabled(enable) ==
    /\ sessionEnabled' = enable
    /\ startCalls' = IF enable /\ ~started THEN startCalls + 1 ELSE startCalls

\* setStreamingEnabled called on the session directly.
SetStreamingEnabled ==
    /\ \E enable \in BOOLEAN : setStreamingEnabled(enable)
    /\ sessionStep' = [kind |-> "setStreamingEnabled"]
    /\ UNCHANGED <<forcedEncoder, encodedStreamState, softwareFallbackAttempted,
                   softwareFallbackRetryPending, softwareFallbackRetryInProgress,
                   errorsFound, fallbacksForced, retriesStarted>>
    /\ UNCHANGED <<enableRequests, started>>
    /\ UNCHANGED <<pairerVars, streamVars, rateVars, rectVars>>

NextFallback ==
    \/ handleStreamError
    \/ StreamStateChanged
    \/ handleStreamActiveChanged
    \/ SetStreamingEnabled

\* A started session whose process started with any value of the variable.
InitFallback == InitPairerVars /\ metadataSignalAvailable /\ started /\ InitStreamVars

SpecFallback == InitFallback /\ [][NextFallback]_vars

----------------------------------------------------------------------------
\* The streaming requests of AbstractSession: requestStreamingEnable and
\* requestStreamingDisable of a session that is started on the first
\* request.  start() returns at once; the session reports started later.

MaxStartCalls == 3      \* start() calls in one run of SpecRequests

\* The objects that ask for streaming.
Requesters == {"r1", "r2", "r3"}

\* What the request handlers leave alone.
besideRequests ==
    <<forcedEncoder, encodedStreamState, softwareFallbackAttempted,
      softwareFallbackRetryPending, softwareFallbackRetryInProgress, errorsFound,
      fallbacksForced, retriesStarted, pairerVars, streamVars, rateVars, rectVars>>

\* What a request handler found when it was called.
RequestBefore ==
    [enableRequests |-> enableRequests, sessionEnabled |-> sessionEnabled,
     started |-> started, startCalls |-> startCalls]

\* AbstractSession::requestStreamingEnable
requestStreamingEnable ==
    /\ started \/ startCalls < MaxStartCalls
    /\ \E requester \in Requesters :
           /\ enableRequests' = enableRequests \cup {requester}
           /\ setStreamingEnabled(TRUE)
           /\ sessionStep' = [kind |-> "requestStreamingEnable",
                              requester |-> requester, before |-> RequestBefore]
    /\ UNCHANGED started
    /\ UNCHANGED besideRequests

\* Streaming is switched off whoever asks.
lastRequesterRemoved_always(requests) == TRUE

\* d->enableRequests.size() == 0
lastRequesterRemoved(requests) == Cardinality(requests) = 0

\* AbstractSession::requestStreamingDisable, also the slot of the
\* requester's destroyed signal.
requestStreamingDisable ==
    /\ \E requester \in Requesters :
           /\ IF requester \notin enableRequests
              THEN UNCHANGED <<enableRequests, sessionEnabled, startCalls>>
              ELSE /\ enableRequests' = enableRequests \ {requester}
                   /\ IF lastRequesterRemoved(enableRequests \ {requester})
                      THEN setStreamingEnabled(FALSE)
                      ELSE UNCHANGED <<sessionEnabled, startCalls>>
           /\ sessionStep' = [kind |-> "requestStreamingDisable",
                              requester |-> requester, before |-> RequestBefore]
    /\ UNCHANGED started
    /\ UNCHANGED besideRequests

\* AbstractSession::setStarted(true), called when a start() has completed.
setStarted ==
    /\ startCalls > 0
    /\ ~started
    /\ started' = TRUE
    /\ sessionStep' = [kind |-> "setStarted"]
    /\ UNCHANGED <<enableRequests, sessionEnabled, startCalls>>
    /\ UNCHANGED besideRequests

NextRequests ==
    \/ requestStreamingEnable
    \/ requestStreamingDisable
    \/ setStarted

InitRequests == InitPairerVars /\ metadataSignalAvailable /\ forcedEncoder = "" /\ ~started /\ InitStreamVars

SpecRequests == InitRequests /\ [][NextRequests]_vars

----------------------------------------------------------------------------
\* Properties of the pairer.

\* C1 (as written): when there are no more metadata records than packets,
\* frames are emitted in the order P1..Pn and every Pi emitted with metadata
\* is paired with a record Mj with j <= i.
C1_PairerFifo ==
    metaCount <= packetCount =>
        /\ \A i \in DOMAIN frames : frames[i].packet = frames[i].seq
        /\ metaLead <= 0

\* C1 (amended): frames are emitted in the order P1..Pn, and every Pi emitted
\* with metadata is paired with a record Mj with j <= i + d, d being the
\* number of records the MaxPendingFrameMetadata cap had dropped before; so
\* j <= i as long as the cap has dropped nothing.
C1_PairerFifoUpToDrops ==
    \A i \in DOMAIN frames :
        /\ frames[i].packet = frames[i].seq
        /\ frames[i].meta # 0 => frames[i].meta <= frames[i].packet + frames[i].dropped

C1_Witness ==
    \E i \in DOMAIN frames :
        /\ frames[i].dropped > 0
        /\ frames[i].meta = frames[i].packet + frames[i].dropped

\* C2: no packet is emitted in more than one frame, no metadata record is
\* attached to more than one frame, and records are consumed in arrival
\* order: the packets and the records of successive frames strictly increase,
\* and whatever is still queued is newer than everything emitted.
C2_AtMostOnce ==
    /\ \A i \in DOMAIN frames :
           /\ frames[i].packet > frames[i].prevPacket
           /\ frames[i].meta # 0 => frames[i].meta > frames[i].prevMeta
    /\ \A i \in DOMAIN pendingPackets : pendingPackets[i].index > lastPacket
    /\ \A i \in DOMAIN pendingFrameMetadata : pendingFrameMetadata[i].index > lastPairedMeta

C2_Witness ==
    \E i \in DOMAIN frames :
        /\ frames[i].packet > 1
        /\ frames[i].prevMeta >= 1
        /\ frames[i].meta > frames[i].prevMeta

\* C3: the damage of every emitted frame (of non-empty size) is non-empty and
\* lies inside (0, 0, size.width, size.height).
C3_DamageInsideFrame ==
    \A i \in DOMAIN frames :
        LET f == frames[i].frame
        IN ~sizeIsEmpty(f.size) =>
               /\ f.damage # {}
               /\ \A r \in f.damage :
                      /\ r.w > 0 /\ r.h > 0
                      /\ r.x >= 0 /\ r.y >= 0
                      /\ r.x + r.w <= f.size.w
                      /\ r.y + r.h <= f.size.h

\* C4: a frame built from a key-frame packet, or emitted without metadata,
\* has exactly the full rectangle (0, 0, w, h) of its final size as damage.
C4_FullDamageFallback ==
    \A i \in DOMAIN frames :
        LET f == frames[i].frame
        IN (f.isKeyFrame \/ frames[i].meta = 0) =>
               f.damage = QRegion(QRect(0, 0, f.size.w, f.size.h))

C4_Witness ==
    \E i \in DOMAIN frames :
        /\ frames[i].frame.isKeyFrame
        /\ frames[i].used # <<>>
        /\ frames[i].used[1].hasDamage
        /\ frames[i].used[1].damage = SmallDamage
        /\ frames[i].frame.size = QSize(1920, 1080)

\* C5: no packet stays pending beyond MetadataPairWaitBudget, whether or not
\* another packet or metadata record arrives.
C5_BoundedWait ==
    \A i \in DOMAIN pendingPackets :
        now - pendingPackets[i].queuedAt <= MetadataPairWaitBudget

\* C6: at most MaxPendingPacketsWithoutMetadata packets are pending when a
\* handler returns, and a packet released because the arrival of a packet
\* made the queue deeper than that is the oldest one, emitted without
\* metadata and with full-frame damage.
C6_StarvationRelease ==
    /\ Len(pendingPackets) <= MaxPendingPacketsWithoutMetadata
    /\ \A i \in DOMAIN frames :
           frames[i].depth > MaxPendingPacketsWithoutMetadata =>
               /\ frames[i].meta = 0
               /\ frames[i].packet = frames[i].seq
               /\ frames[i].frame.damage = fullFrameDamage(frames[i].frame.size)

C6_Witness ==
    /\ Len(pendingPackets) = MaxPendingPacketsWithoutMetadata
    /\ \E i \in DOMAIN frames :
           /\ frames[i].depth = MaxPendingPacketsWithoutMetadata + 1
           /\ frames[i].waited < MetadataPairWaitBudget
           /\ ~frames[i].frame.isKeyFrame
           /\ ~sizeIsEmpty(frames[i].frame.size)

\* C7 (scenario S3): a non-key packet P1 that waited 5 ms for its metadata
\* M1 (damage (0,0,32,32), size 1920x1080) is emitted with data P1, size
\* 1920x1080 and damage (0,0,32,32), and is submitted as exactly one region
\* rectangle with QP 18 and quality 100.
C7_ScenarioS3 ==
    \A i \in DOMAIN frames :
        LET e == frames[i]
        IN (/\ ~e.frame.isKeyFrame
            /\ e.waited = 5
            /\ e.used # <<>>
            /\ e.used[1].hasDamage
            /\ e.used[1].damage = {QRect(0, 0, 32, 32)}
            /\ e.used[1].size = QSize(1920, 1080))
           => /\ e.frame.data = e.packet
              /\ e.frame.size = QSize(1920, 1080)
              /\ e.frame.damage = {QRect(0, 0, 32, 32)}
              /\ LET m == avc420Meta(e.frame)
                 IN /\ Len(m.regionRects) = 1
                    /\ \A k \in DOMAIN m.quantQualityVals :
                           /\ m.quantQualityVals[k].qp = 18
                           /\ m.quantQualityVals[k].qualityVal = 100

----------------------------------------------------------------------------
\* Properties of the frame queue and the submitter thread.

\* C8: the frame queue never holds more than 8 frames (the code caps it at
\* MaxQueuedFrames), and a push keeps the new frame, dropping the oldest
\* queued frame exactly when the queue was at its capacity.
C8_QueueBound ==
    /\ Len(frameQueue) <= 8
    /\ lastStep.kind = "push" =>
           /\ frameQueue # <<>>
           /\ frameQueue[Len(frameQueue)] = lastStep.frame
           /\ frameQueue = IF Len(lastStep.before) >= MaxQueuedFrames
                           THEN Append(Tail(lastStep.before), lastStep.frame)
                           ELSE Append(lastStep.before, lastStep.frame)

C8_Witness ==
    /\ lastStep.kind = "push"
    /\ Len(lastStep.before) = MaxQueuedFrames
    /\ Len(frameQueue) = MaxQueuedFrames
    /\ frameQueue[1] = lastStep.before[2]

\* C9: when the submitter thread takes a frame from a queue holding several,
\* it takes the newest and discards the older ones: the queue is empty right
\* after the take and the frame to send is the most recently queued one.
C9_FreshestFirst ==
    (lastStep.kind = "take" /\ Len(lastStep.before) > 1) =>
        /\ frameQueue = <<>>
        /\ nextFrame = lastStep.before[Len(lastStep.before)]

\* C10: the frames for which START_FRAME is sent follow the order in which
\* queueFrame received them: each one was received by queueFrame, later than
\* the frame sent before it.
C10_WireOrder ==
    (/\ lastStep.kind = "send"
     /\ \E k \in DOMAIN lastStep.wire : lastStep.wire[k].pdu = "StartFrame") =>
        /\ lastStep.before.sentSeq < lastStep.before.frame.seq
        /\ lastStep.before.frame.seq <= produced

C10_Witness ==
    /\ lastStep.kind = "send"
    /\ \E k \in DOMAIN lastStep.wire : lastStep.wire[k].pdu = "StartFrame"
    /\ lastStep.before.sentSeq > 0
    /\ lastStep.before.frame.seq > lastStep.before.sentSeq + 1
    /\ frameQueue # <<>>

----------------------------------------------------------------------------
\* Properties of frame submission.

C12_GatedSubmission ==
    (/\ lastStep.kind \in {"skip", "abort", "send"}
     /\ \/ lastStep.before.context = "null"
        \/ ~lastStep.before.caps
        \/ lastStep.before.frame.data = 0) =>
        /\ lastStep.wire = <<>>
        /\ frameId = lastStep.before.frameId
        /\ pendingFrames = lastStep.before.pendingFrames
        /\ encodedFrames = lastStep.before.encodedFrames
        /\ pendingReset = lastStep.before.pendingReset

C12_Witness ==
    /\ lastStep.kind = "skip"
    /\ lastStep.before.caps
    /\ lastStep.before.frame.data = 0
    /\ lastStep.before.pendingReset
    /\ pendingReset
    /\ lastStep.wire = <<>>

\* C16: the first frame put on the wire after the stream was created or
\* reset() was called is preceded, in the same submission, by RESET_GRAPHICS,
\* CREATE_SURFACE and MAP_SURFACE_TO_OUTPUT of that frame's size, and its
\* SURFACE_COMMAND names the surface just created; a submission without a
\* pending reset sends none of the three.
C16_ResetSequence ==
    /\ (lastStep.kind = "send" /\ lastStep.before.resetOwed) =>
           LET wire == lastStep.wire
               frameSize == lastStep.before.frame.size
           IN /\ Len(wire) = 6
              /\ wire[1].pdu = "ResetGraphics"
              /\ wire[1].width = frameSize.w /\ wire[1].height = frameSize.h
              /\ wire[2].pdu = "CreateSurface"
              /\ wire[2].width = frameSize.w /\ wire[2].height = frameSize.h
              /\ wire[3].pdu = "MapSurfaceToOutput"
              /\ wire[3].surfaceId = wire[2].surfaceId
              /\ wire[4].pdu = "StartFrame"
              /\ wire[5].pdu = "SurfaceCommand"
              /\ wire[5].surfaceId = wire[2].surfaceId
    /\ (lastStep.kind \in {"skip", "abort", "send"} /\ ~lastStep.before.pendingReset) =>
           \A k \in DOMAIN lastStep.wire :
               lastStep.wire[k].pdu \notin
                   {"ResetGraphics", "CreateSurface", "MapSurfaceToOutput"}

\* Properties of the damage rectangles.

\* C17: toDamageRects returns at most MaxDamageRectCount rectangles, a damage
\* of more rectangles than that gives the one full-frame rectangle, and when
\* the merge loop ended with a pair still qualifying (so not for lack of one)
\* it returns at most MaxCoalescedDamageRects.
C17_BoundedRectCount ==
    lastStep.kind = "rects" =>
        /\ Len(rectOutput) <= MaxDamageRectCount
        /\ (~sizeIsEmpty(rectInput.size) /\ ~rectInput.isKeyFrame
            /\ Cardinality(regionIntersected(rectInput.damage,
                                             frameRect(rectInput.size)))
                   > MaxDamageRectCount) =>
               rectOutput = <<toRdpRect(frameRect(rectInput.size))>>
        /\ (~lastStep.early /\ lastStep.merged) =>
               Len(rectOutput) <= MaxCoalescedDamageRects

C17_Witness ==
    /\ lastStep.kind = "rects"
    /\ ~lastStep.early /\ lastStep.merged
    /\ lastStep.sourceRects = MaxDamageRectCount
    /\ Len(rectOutput) = MaxCoalescedDamageRects

\* C18: every RECTANGLE_16 that toDamageRects returns has left < right and
\* top < bottom, with no coordinate above 65535.
C18_Rect16Valid ==
    lastStep.kind = "rects" =>
        \A k \in DOMAIN rectOutput :
            /\ 0 <= rectOutput[k].left /\ rectOutput[k].left < rectOutput[k].right
            /\ rectOutput[k].right <= MaxRdpCoordinate
            /\ 0 <= rectOutput[k].top /\ rectOutput[k].top < rectOutput[k].bottom
            /\ rectOutput[k].bottom <= MaxRdpCoordinate

\* Properties of the congestion control.

\* C19: whatever round trip times and acknowledgements arrive, the requested
\* frame rate stays within 5..120.
C19_CongestionClamps == requestedFrameRate >= 5 /\ requestedFrameRate <= 120

\* Properties of capability negotiation.

\* C13 (scenario S1): a client that advertises the single capability set
\* {version 10, no flags} is confirmed with that set, capsConfirmed becomes
\* true and the connection stays open.
C13_ScenarioS1 ==
    (/\ lastStep.kind = "caps"
     /\ lastStep.capsSets = <<CapSet(RDPGFX_CAPVERSION_10, {})>>) =>
        /\ lastStep.status = "CHANNEL_RC_OK"
        /\ lastStep.confirm = <<CapSet(RDPGFX_CAPVERSION_10, {})>>
        /\ lastStep.closeReason = "none"
        /\ capsConfirmed

\* C14: when negotiation succeeds, the confirmed capability set supports
\* AVC420, no supporting set has a higher version, and no earlier supporting
\* set has the same version.
C14_SelectsSupporting ==
    (lastStep.kind = "caps" /\ lastStep.status = "CHANNEL_RC_OK") =>
        LET sets == lastStep.capsSets
            k == lastStep.selected
        IN /\ k \in DOMAIN sets
           /\ lastStep.confirm = <<sets[k]>>
           /\ supportsAvc420(capsInformation(sets[k]))
           /\ \A o \in DOMAIN sets :
                  supportsAvc420(capsInformation(sets[o])) => sets[o].version <= sets[k].version
           /\ \A o \in 1..(k - 1) :
                  supportsAvc420(capsInformation(sets[o])) => sets[o].version < sets[k].version

\* C15: when no advertised capability set supports AVC420, onCapsAdvertise
\* closes the connection with VideoInitFailed, returns an error, sends no
\* CAPS_CONFIRM and leaves capsConfirmed as it was.
C15_NegotiationRefused ==
    (/\ lastStep.kind = "caps"
     /\ \A i \in DOMAIN lastStep.capsSets : ~supportsAvc420(capsInformation(lastStep.capsSets[i]))) =>
        /\ lastStep.closeReason = "VideoInitFailed"
        /\ lastStep.status # "CHANNEL_RC_OK"
        /\ lastStep.confirm = <<>>
        /\ capsConfirmed = lastStep.before.capsConfirmed

C15_Witness ==
    /\ lastStep.kind = "caps"
    /\ lastStep.capsSets = <<CapSet(RDPGFX_CAPVERSION_106, {"AVC_DISABLED"})>>
    /\ lastStep.closeReason = "VideoInitFailed"
    /\ ~capsConfirmed

\* C20: pendingFrames is exactly the set of frame ids put on the wire
\* (START_FRAME .. END_FRAME) and not acknowledged since; acknowledging a known
\* id removes that id only, acknowledging an unknown id returns CHANNEL_RC_OK
\* and changes nothing.
C20_PendingAcks ==
    /\ pendingFrames = outstanding
    /\ lastStep.kind = "ack" =>
           /\ lastStep.status = "CHANNEL_RC_OK"
           /\ pendingFrames = lastStep.before.pendingFrames \ {lastStep.id}

\* C21: every FRAME_ACKNOWLEDGE, also one for a frame id that is not pending,
\* sets the lag to encodedFrames - totalFramesDecoded.
C21_LagOnEveryAck ==
    lastStep.kind = "ack" =>
        frameDelay = encodedFrames - lastStep.totalFramesDecoded

\* C22: pendingFrames, the surface and frameId belong to the submission
\* thread: no callback of another thread has touched them while the
\* submission thread is between taking a frame and the end of sendFrame, where
\* it holds no lock.  The acknowledgement is the callback that reads and
\* writes pendingFrames.
C22_SubmitterOwnsPendingFrames ==
    ~(lastStep.kind = "ack" /\ submitterPc = "send")

\* C23: once close() has closed the context of a stream whose submission
\* thread was started, the thread ends and close() returns from the join.
C23_CloseReturns ==
    (closePc = "stop") ~> (closePc = "idle" /\ submitterPc = "joined")

C23_Witness ==
    /\ lastStep.kind = "closed"
    /\ submitterPc = "joined"
    /\ closePc = "idle"
    /\ frameQueue # <<>>

\* C24: over any sequence of encoder errors the software encoder is forced
\* at most once and the retry is started at most once; an encoder error
\* after the first one, or one met with the software encoder already forced,
\* emits error() and neither forces the encoder again nor schedules or
\* starts a retry.
C24_OneShotFallback ==
    /\ fallbacksForced <= 1
    /\ retriesStarted <= 1
    /\ (/\ sessionStep.kind = "error"
        /\ \/ sessionStep.before.errorsFound >= 1
           \/ sessionStep.before.forcedEncoder = "libx264")
       => /\ sessionStep.emittedError
          /\ fallbacksForced = sessionStep.before.fallbacksForced
          /\ retriesStarted = sessionStep.before.retriesStarted
          /\ softwareFallbackRetryPending =
                 sessionStep.before.softwareFallbackRetryPending

\* A second encoder error, after the fallback was forced and its retry started.
C24_Witness ==
    /\ sessionStep.kind = "error"
    /\ sessionStep.before.errorsFound >= 1
    /\ sessionStep.emittedError
    /\ fallbacksForced = 1
    /\ retriesStarted = 1

\* C25 (as written): a frame put on the wire carries the single full-frame
\* rectangle as its region whenever it is a key frame, or its damage covers
\* at least 0.15 of the frame, or the lag is at least 1 when it is sent, or
\* it has more than 8 damage rectangles.
C25_FullDamageOverride ==
    lastStep.kind = "send" =>
        LET frame == lastStep.before.frame
            frameBounds == frameRect(frame.size)
            damage == regionIntersected(frame.damage, frameBounds)
            RECURSIVE area(_)
            area(region) ==
                IF region = {} THEN 0
                ELSE LET r == CHOOSE r \in region : TRUE
                     IN r.w * r.h + area(region \ {r})
            region == lastStep.wire[Len(lastStep.wire) - 1].meta.regionRects
        IN (\/ frame.isKeyFrame
            \/ 100 * area(damage) >= 15 * frameBounds.w * frameBounds.h
            \/ frameDelay >= 1
            \/ Cardinality(damage) > 8)
           => region = <<toRdpRect(frameBounds)>>

\* C26 (as written): an update of the requested frame rate raises it by at
\* most 2, and lowers it by more than 5 only under a congestion signal: a
\* lag of at least 2 or a round trip time risen by at least 8 ms, which
\* takes a round trip time of at least 8 ms (the decoder queue depth is not
\* kept by the stream).
C26_RateSteps ==
    lastStep.kind = "rtt" =>
        /\ requestedFrameRate - lastStep.before.requestedFrameRate <= 2
        /\ lastStep.before.requestedFrameRate - requestedFrameRate > 5
           => (lastStep.before.frameDelay >= 2 \/ lastStep.averageRTT >= 8)

\* C28 (as written): whenever updateRequestedFrameRate computes the average,
\* every estimate it keeps is at most one second old.
C28_SlidingWindow ==
    (lastStep.kind = "rtt" /\ lastStep.averaged) =>
        \A i \in DOMAIN frameRateEstimates :
            wallClock - frameRateEstimates[i].timeStamp <= FrameRateEstimateAveragePeriod

\* C27 (as written): initialize() returns true only when the GFX context
\* has been opened successfully and the submission thread has been started.
C27_OpenFailureReported ==
    (lastStep.kind = "initialize" /\ lastStep.result) =>
        /\ gfxContext \in {"open", "closed"}
        /\ submitterPc # "none"

\* C29: the PDUs of every frame sendFrame submits go out as START_FRAME,
\* SURFACE_COMMAND, END_FRAME, the first and the last with the frame's id,
\* with nothing between them; a call that submits no frame emits none of
\* the three.
C29_FrameBracket ==
    lastStep.kind \in {"skip", "abort", "send"} =>
        LET wire == lastStep.wire
            starts == {i \in DOMAIN wire : wire[i].pdu = "StartFrame"}
        IN /\ \A i \in starts :
                  /\ i + 2 <= Len(wire)
                  /\ wire[i + 1].pdu = "SurfaceCommand"
                  /\ wire[i + 2].pdu = "EndFrame"
                  /\ wire[i + 2].frameId = wire[i].frameId
                  /\ wire[i].frameId = lastStep.before.frameId
           /\ \A i \in DOMAIN wire :
                  /\ wire[i].pdu = "SurfaceCommand" => (i - 1) \in starts
                  /\ wire[i].pdu = "EndFrame" => (i - 2) \in starts
           /\ Cardinality(starts) = IF lastStep.kind = "send" THEN 1 ELSE 0

\* The second frame of a run goes out after the PDUs of a reset.
C29_Witness ==
    /\ lastStep.kind = "send"
    /\ lastStep.before.frameId >= 1
    /\ Len(lastStep.wire) > 3
    /\ lastStep.wire[Len(lastStep.wire)].pdu = "EndFrame"

\* C30 (as written): when sendFrame has returned, every bandwidth measure it
\* started has been stopped.
C30_MeasurePairing ==
    lastStep.kind \in {"skip", "abort", "send"} => ~measuring

\* C31 (as written): every CREATE_SURFACE carries the id of the surface
\* before it plus one (1 for the first surface of the connection), so ids
\* strictly increase and none is used twice.
C31_SurfaceIds ==
    lastStep.kind \in {"abort", "send"} =>
        \A k \in DOMAIN lastStep.wire :
            lastStep.wire[k].pdu = "CreateSurface" =>
                lastStep.wire[k].surfaceId = lastStep.before.surface.id + 1

\* C32: after every handler of the pairer the metadata queue holds at most
\* MaxPendingFrameMetadata records, these are the newest records delivered
\* and not yet paired, in the order of their arrival (the cap drops from the
\* head), and the packet queue or the metadata queue is empty.
C32_QueueBounds ==
    /\ Len(pendingFrameMetadata) <= MaxPendingFrameMetadata
    /\ \A i \in DOMAIN pendingFrameMetadata :
           pendingFrameMetadata[i].index = metaCount - Len(pendingFrameMetadata) + i
    /\ pendingPackets = <<>> \/ pendingFrameMetadata = <<>>

\* The metadata callback has just dropped the oldest record of a full queue.
C32_Witness ==
    /\ Len(pendingFrameMetadata) = MaxPendingFrameMetadata
    /\ droppedMeta >= 1
    /\ pendingFrameMetadata[1].index = droppedMeta + 1

\* C33 (as written): for a frame that is not a key frame and has a size,
\* every pixel of the damage clipped to the frame lies in one of the
\* rectangles toDamageRects returns (right and bottom edges excluded).  The
\* pixels tested are the corners of the cells into which the edges of the
\* returned rectangles cut each damage rectangle.
C33_NoDamageLost ==
    (/\ lastStep.kind = "rects"
     /\ ~rectInput.isKeyFrame
     /\ ~sizeIsEmpty(rectInput.size)) =>
        LET out == {rectOutput[k] : k \in DOMAIN rectOutput}
            inside(x, y) ==
                \E o \in out : o.left <= x /\ x < o.right /\ o.top <= y /\ y < o.bottom
            xs(d) == {d.x} \cup {v \in {o.left : o \in out} \cup {o.right : o \in out} :
                                     d.x < v /\ v < d.x + d.w}
            ys(d) == {d.y} \cup {v \in {o.top : o \in out} \cup {o.bottom : o \in out} :
                                     d.y < v /\ v < d.y + d.h}
        IN \A d \in regionIntersected(rectInput.damage, frameRect(rectInput.size)) :
               \A x \in xs(d), y \in ys(d) : inside(x, y)

\* C34 (as written): a call of sendFrame that finds the GFX context closed
\* by close() puts no PDU on the wire.
C34_NoEmissionAfterClose ==
    (/\ lastStep.kind \in {"skip", "abort", "send"}
     /\ lastStep.before.context = "closed") =>
        lastStep.wire = <<>>

\* C35 (as written): while the stream is disabled the frame queue is empty.
C35_DisabledQueueEmpty == ~enabled => frameQueue = <<>>

\* C36: over the calls of requestStreamingEnable and requestStreamingDisable
\* the session is enabled exactly while a requester is registered; a disable
\* by a requester that is not registered changes neither the flag nor the
\* set; and the flag goes from true to false only on the disable of the one
\* requester left.
C36_RequesterCounting ==
    /\ sessionEnabled <=> enableRequests # {}
    /\ (/\ sessionStep.kind = "requestStreamingDisable"
        /\ sessionStep.requester \notin sessionStep.before.enableRequests)
       => /\ sessionEnabled = sessionStep.before.sessionEnabled
          /\ enableRequests = sessionStep.before.enableRequests
    /\ (/\ sessionStep.kind \in {"requestStreamingEnable", "requestStreamingDisable"}
        /\ sessionStep.before.sessionEnabled
        /\ ~sessionEnabled)
       => /\ sessionStep.kind = "requestStreamingDisable"
          /\ sessionStep.before.enableRequests = {sessionStep.requester}

\* One of two registered requesters has just been removed: still enabled.
C36_Witness ==
    /\ sessionStep.kind = "requestStreamingDisable"
    /\ Cardinality(sessionStep.before.enableRequests) = 2
    /\ sessionStep.requester \in sessionStep.before.enableRequests
    /\ sessionEnabled
    /\ started

\* C37: while the session has not reported started, start() has been called
\* at most once, however many enable requests were made.
C37_SingleStart == ~started => startCalls <= 1

\* C38: once handleStreamError has emitted error() for want of a further
\* fallback (an error was found that forced no fallback), no later step has
\* handleStreamStateChanged start the stream again.
C38_NoRestartAfterFatal ==
    [][errorsFound > fallbacksForced => retriesStarted' = retriesStarted]_vars

\* C39: fed the same packets, metadata records and clock readings, the
\* pairer of PlasmaScreencastV1Session emits in every step the frames the
\* pairer of PortalSession emits (same packet, same record or none, same
\* size, damage and key-frame flag, in the same order) and its two queues
\* hold what the queues of PortalSession hold.
C39_PairersAgree ==
    /\ Len(plasma.frames) = Len(frames)
    /\ \A i \in DOMAIN frames :
           plasma.frames[i] = [frame |-> frames[i].frame,
                               packet |-> frames[i].packet,
                               meta |-> frames[i].meta]
    /\ plasma.pendingPackets = pendingPackets
    /\ plasma.pendingFrameMetadata = pendingFrameMetadata

\* A record arrived for two waiting packets: the first went out with the
\* record's size and its clipped damage, the second is still queued.
C39_Witness ==
    /\ Len(plasma.frames) = 1
    /\ plasma.frames[1].meta > 0
    /\ plasma.frames[1].frame.size # size
    /\ plasma.frames[1].frame.damage # fullFrameDamage(plasma.frames[1].frame.size)
    /\ plasma.pendingPackets # <<>>

====
